---- MODULE Spec2Model ----
(***************************************************************************)
(* Diagram-to-source generation engine of the collaborative diagram        *)
(* editor backend: the Spring Boot generator (CodeGenerationService), the  *)
(* Flutter generator (CodeGenerationFlutterService) and the two entry      *)
(* points of DiagramsService that call them.                               *)
(*                                                                         *)
(* Strings that the code takes apart (class names, attribute names, ids,   *)
(* file names) are sequences of UTF-16 code units, so that the case        *)
(* conversions, the concatenations and the `<` comparison of the code are  *)
(* computed and not assumed.  Strings that the code only compares with     *)
(* literals (relation types, attribute types) are TLA+ strings.            *)
(***************************************************************************)
EXTENDS Integers, Sequences, FiniteSets, TLC

(***************************************************************************)
(* Bounds of the model.                                                    *)
(***************************************************************************)
\* classes of a diagram
MaxClasses == 2
\* relations of a diagram
MaxRelations == 1
\* ticks of the wall clock (one tick = one 2-second step of a ZIP time stamp)
MaxClock == 1
\* code units of a name given to the case conversions
MaxNameLen == 3
\* ManyToMany relations of a diagram of the many-to-many generation runs
MaxPairRelations == 3
\* rows the generated repository ever holds (ids 1..MaxId)
MaxId == 2
\* the generation requests one client sends
MaxRequests == 2
\* the firings of the progress timers
MaxTicks == 2
\* attributes of a class of the stored diagram
MaxAttributes == 1

(***************************************************************************)
(* String helpers (JavaScript string primitives).                          *)
(***************************************************************************)
\* s.map(Op) followed by a join of the pieces
FlatMap(Op(_), s) ==
  LET f[i \in 0..Len(s)] == IF i = 0 THEN <<>> ELSE f[i - 1] \o Op(s[i])
  IN  f[Len(s)]

\* [A-Z]
IsAsciiUpper(c) == c \in 65..90

\* String.prototype.toLowerCase on one code unit (ASCII and Latin-1)
ToLowerChar(c) ==
  IF c \in 65..90 \/ (c \in 192..222 /\ c # 215) THEN c + 32 ELSE c

\* String.prototype.toUpperCase on one code unit (ASCII and Latin-1)
ToUpperChar(c) ==
  IF c \in 97..122 \/ (c \in 224..254 /\ c # 247) THEN c - 32 ELSE c

\* String.prototype.toLowerCase
ToLowerCase(s) == [i \in 1..Len(s) |-> ToLowerChar(s[i])]

\* s.replace(/^c/, '')
StripLeading(c, s) == IF Len(s) > 0 /\ s[1] = c THEN Tail(s) ELSE s

\* a < b on JavaScript strings: lexicographic on code units
StrLess(a, b) ==
  LET n == IF Len(a) < Len(b) THEN Len(a) ELSE Len(b)
      diff == {i \in 1..n : a[i] # b[i]}
  IN  IF diff = {} THEN Len(a) < Len(b)
      ELSE LET k == CHOOSE i \in diff : \A j \in diff : i <= j
           IN  a[k] < b[k]

\* the literals the generators concatenate
S_id == <<105,100>>
S__id == <<95,105,100>>
S_underscore == <<95>>
S_List == <<76,105,115,116>>
S_Set == <<83,101,116>>
S_Id == <<73,100>>
S_Ids == <<73,100,115>>
S_java == <<46,106,97,118,97>>
S_DTOjava == <<68,84,79,46,106,97,118,97>>
S_Repositoryjava == <<82,101,112,111,115,105,116,111,114,121,46,106,97,118,97>>
S_Servicejava == <<83,101,114,118,105,99,101,46,106,97,118,97>>
S_Controllerjava == <<67,111,110,116,114,111,108,108,101,114,46,106,97,118,97>>
S_dart == <<46,100,97,114,116>>
S__servicedart == <<95,115,101,114,118,105,99,101,46,100,97,114,116>>
S__formdart == <<95,102,111,114,109,46,100,97,114,116>>
S__assignment == <<95,97,115,115,105,103,110,109,101,110,116>>

(***************************************************************************)
(* DiagramContent: elements and relations are JavaScript objects used as   *)
(* insertion-ordered maps.  elements is the sequence of its entries        *)
(* [id, name, attributes] (ids pairwise distinct), relations the sequence  *)
(* of its values [from, to, type].                                         *)
(***************************************************************************)
ElementIds(elements) == {elements[i].id : i \in DOMAIN elements}

\* elements[id] for an id that is a key
ElementAt(elements, id) ==
  elements[CHOOSE i \in DOMAIN elements : elements[i].id = id]

\* the JavaScript value undefined, where a string is expected
Undefined == <<-1>>

\* !s for a string or undefined
Falsy(s) == s = Undefined \/ s = <<>>

\* elements[id]?.name
NameAt(elements, id) ==
  IF id \in ElementIds(elements) THEN ElementAt(elements, id).name
  ELSE Undefined

\* elements[id]?.attributes || []
AttributesAt(elements, id) ==
  IF id \in ElementIds(elements) THEN ElementAt(elements, id).attributes
  ELSE <<>>

EmptyMap == [k \in {} |-> <<>>]


(***************************************************************************)
(* CodeGenerationService (Spring Boot target): utilities.                  *)
(***************************************************************************)
\* variant that keeps the entries of the previous call (no clear())
buildClassIdMap_NoClear(oldMap, elements) ==
  [id \in DOMAIN oldMap \cup ElementIds(elements) |->
     IF id \in ElementIds(elements) THEN ElementAt(elements, id).name
     ELSE oldMap[id]]

\* this.classIdToNameMap.clear(); then one set(classId, name) per element
buildClassIdMap(oldMap, elements) ==
  LET cleared == EmptyMap
  IN  [id \in DOMAIN cleared \cup ElementIds(elements) |->
         IF id \in ElementIds(elements) THEN ElementAt(elements, id).name
         ELSE cleared[id]]

\* this.classIdToNameMap.get(classId) || classId
getClassNameById(map, classId) ==
  IF classId \in DOMAIN map /\ ~Falsy(map[classId]) THEN map[classId]
  ELSE classId

\* inverseMap[relationType] || relationType
getInverseRelationType(relationType) ==
  CASE relationType = "OneToMany" -> "ManyToOne"
    [] relationType = "ManyToOne" -> "OneToMany"
    [] relationType = "ManyToMany" -> "ManyToMany"
    [] relationType = "OneToOne" -> "OneToOne"
    [] OTHER -> relationType

JavaTypeMap ==
  [String |-> "String", Integer |-> "Integer", Long |-> "Long",
   Double |-> "Double", Float |-> "Float", Boolean |-> "Boolean",
   Date |-> "java.util.Date", LocalDate |-> "java.time.LocalDate",
   LocalDateTime |-> "java.time.LocalDateTime",
   BigDecimal |-> "java.math.BigDecimal"]

\* typeMap[type] || 'String'
mapTypeToJava(type) ==
  IF type \in DOMAIN JavaTypeMap THEN JavaTypeMap[type] ELSE "String"

\* if (!typeMap[type]) console.warn(...): what one call writes to the console
mapTypeToJavaWarns(type) ==
  IF type \in DOMAIN JavaTypeMap THEN <<>>
  ELSE << [level |-> "warn", by |-> "mapTypeToJava", type |-> type] >>

\* str.replace(/[A-Z]/g, l => '_' + l.toLowerCase()).replace(/^_/, '')
toSnakeCase(str) ==
  LET piece(c) == IF IsAsciiUpper(c) THEN <<95, ToLowerChar(c)>> ELSE <<c>>
  IN  StripLeading(95, FlatMap(piece, str))

\* str.replace(/[A-Z]/g, l => '-' + l.toLowerCase()).replace(/^-/, '')
toKebabCase(str) ==
  LET piece(c) == IF IsAsciiUpper(c) THEN <<45, ToLowerChar(c)>> ELSE <<c>>
  IN  StripLeading(45, FlatMap(piece, str))

\* str.charAt(0).toLowerCase() + str.slice(1)
toLowerCamelCase(str) ==
  IF str = <<>> THEN <<>> ELSE <<ToLowerChar(str[1])>> \o Tail(str)

\* str.charAt(0).toUpperCase() + str.slice(1)
capitalize(str) ==
  IF str = <<>> THEN <<>> ELSE <<ToUpperChar(str[1])>> \o Tail(str)

(***************************************************************************)
(* CodeGenerationService.generateRelationField: one JPA field, as the      *)
(* record of what the emitted text declares.                               *)
(***************************************************************************)
NoField ==
  [annotation |-> "none", joinColumn |-> <<>>, inverseJoinColumn |-> <<>>,
   joinTable |-> <<>>, mappedBy |-> <<>>, cascade |-> FALSE,
   collection |-> "none", targetClass |-> <<>>, fieldName |-> <<>>]

\* the name of the @JoinTable of an owning ManyToMany field
joinTableName(targetClass) ==
  LET fieldName == toLowerCamelCase(targetClass)
      sourceTable == toSnakeCase(targetClass)
      targetTable == toSnakeCase(fieldName)
  IN  IF StrLess(sourceTable, targetTable)
      THEN sourceTable \o S_underscore \o targetTable
      ELSE targetTable \o S_underscore \o sourceTable

generateRelationField(relationType, targetClass, isOwner) ==
  LET fieldName == toLowerCamelCase(targetClass)
      base == [NoField EXCEPT !.targetClass = targetClass]
  IN  CASE relationType = "OneToOne" ->
             IF isOwner
             THEN [base EXCEPT !.annotation = "OneToOne",
                               !.joinColumn = toSnakeCase(fieldName) \o S__id,
                               !.fieldName = fieldName]
             ELSE [base EXCEPT !.annotation = "OneToOne",
                               !.mappedBy = fieldName,
                               !.fieldName = fieldName]
        [] relationType = "OneToMany" ->
             [base EXCEPT !.annotation = "OneToMany",
                          !.mappedBy = toLowerCamelCase(targetClass),
                          !.cascade = TRUE,
                          !.collection = "List",
                          !.fieldName = fieldName \o S_List]
        [] relationType = "ManyToOne" ->
             [base EXCEPT !.annotation = "ManyToOne",
                          !.joinColumn = toSnakeCase(fieldName) \o S__id,
                          !.fieldName = fieldName]
        [] relationType = "ManyToMany" ->
             IF isOwner
             THEN [base EXCEPT !.annotation = "ManyToMany",
                               !.joinTable = joinTableName(targetClass),
                               !.joinColumn = toSnakeCase(targetClass) \o S__id,
                               !.inverseJoinColumn =
                                    toSnakeCase(fieldName) \o S__id,
                               !.collection = "Set",
                               !.fieldName = fieldName \o S_Set]
             ELSE [base EXCEPT !.annotation = "ManyToMany",
                               !.mappedBy = fieldName \o S_Set,
                               !.collection = "Set",
                               !.fieldName = fieldName \o S_Set]
        [] relationType = "Inheritance" ->
             [base EXCEPT !.annotation = "comment"]
        [] relationType = "Composition" ->
             [base EXCEPT !.annotation = "OneToMany",
                          !.cascade = TRUE,
                          !.collection = "List",
                          !.fieldName = fieldName \o S_List]
        [] relationType = "Aggregation" ->
             [base EXCEPT !.annotation = "OneToMany",
                          !.collection = "List",
                          !.fieldName = fieldName \o S_List]
        [] OTHER ->
             [base EXCEPT !.annotation = "plain", !.fieldName = fieldName]

(***************************************************************************)
(* CodeGenerationService.generateEntity.  parentClass is the empty string  *)
(* where the code has null (both are falsy in `if (!parentClass)`).        *)
(***************************************************************************)
\* the inheritance scan: the last Inheritance relation whose `to` is the class
entityParentClass(className, relations, map) ==
  LET hits == {i \in DOMAIN relations :
                 /\ relations[i].type = "Inheritance"
                 /\ getClassNameById(map, relations[i].to) = className}
  IN  IF hits = {} THEN <<>>
      ELSE LET last == CHOOSE i \in hits : \A j \in hits : j <= i
           IN  getClassNameById(map, relations[last].from)

\* the inheritance scan: some Inheritance relation whose `from` is the class
entityIsInheritanceParent(className, relations, map) ==
  \E i \in DOMAIN relations :
     /\ relations[i].type = "Inheritance"
     /\ getClassNameById(map, relations[i].from) = className

\* the attribute fields of the entity
entityAttributes(classData, parentClass) ==
  LET field(attr) ==
        IF parentClass = <<>>
        THEN << [javaType |-> mapTypeToJava(attr.type), name |-> attr.name,
                 isId |-> ToLowerCase(attr.name) = S_id] >>
        ELSE IF ToLowerCase(attr.name) = S_id THEN <<>>
             ELSE << [javaType |-> mapTypeToJava(attr.type),
                      name |-> attr.name, isId |-> FALSE] >>
  IN  FlatMap(field, classData.attributes)

\* the fields one relation adds to the entity of className
entityRelationFields(className, relation, map) ==
  LET isSource == getClassNameById(map, relation.from) = className
      isTarget == getClassNameById(map, relation.to) = className
      asSource ==
        IF isSource
        THEN << generateRelationField(relation.type,
                    getClassNameById(map, relation.to), TRUE) >>
        ELSE <<>>
      asTarget ==
        IF isTarget /\ relation.type # "ManyToOne" /\ ~isSource
        THEN << generateRelationField(getInverseRelationType(relation.type),
                    getClassNameById(map, relation.from), FALSE) >>
        ELSE <<>>
  IN  IF relation.type = "Inheritance" THEN <<>> ELSE asSource \o asTarget

generateEntity(className, classData, relations, map) ==
  LET parentClass == entityParentClass(className, relations, map)
      fields(relation) == entityRelationFields(className, relation, map)
  IN  [kind |-> "entity",
       className |-> className,
       table |-> toSnakeCase(className),
       inheritanceRoot |-> entityIsInheritanceParent(className, relations, map),
       extends |-> parentClass,
       attributes |-> entityAttributes(classData, parentClass),
       relationFields |-> FlatMap(fields, relations)]

\* what the mapTypeToJava calls of generateEntity write to the console
entityWarns(classData, parentClass) ==
  LET warns(attr) ==
        IF parentClass # <<>> /\ ToLowerCase(attr.name) = S_id THEN <<>>
        ELSE mapTypeToJavaWarns(attr.type)
  IN  FlatMap(warns, classData.attributes)

(***************************************************************************)
(* CodeGenerationService: DTO, repository, service, controller.            *)
(***************************************************************************)
\* generateDTO maps every attribute twice: the fields, then the accessors
dtoWarns(classData) ==
  LET warns(attr) == mapTypeToJavaWarns(attr.type)
  IN  FlatMap(warns, classData.attributes) \o
      FlatMap(warns, classData.attributes)

\* variant that leaves the id attribute out, as a child entity does
generateDTO_SkipsId(className, classData) ==
  LET own(attr) == IF ToLowerCase(attr.name) = S_id THEN <<>> ELSE <<attr>>
      attributes == FlatMap(own, classData.attributes)
  IN  [kind |-> "dto",
       className |-> className,
       fields |-> [i \in DOMAIN attributes |->
                     [javaType |-> mapTypeToJava(attributes[i].type),
                      name |-> attributes[i].name]],
       accessors |-> [i \in DOMAIN attributes |->
                        capitalize(attributes[i].name)]]

generateDTO(className, classData) ==
  [kind |-> "dto",
   className |-> className,
   fields |-> [i \in DOMAIN classData.attributes |->
                 [javaType |-> mapTypeToJava(classData.attributes[i].type),
                  name |-> classData.attributes[i].name]],
   accessors |-> [i \in DOMAIN classData.attributes |->
                    capitalize(classData.attributes[i].name)]]

generateRepository(className) ==
  [kind |-> "repository", className |-> className, keyType |-> "Long"]

\* variant of generateService whose entity mapping keeps the id setter
generateService_CopiesId(className, currentContent) ==
  LET els == currentContent.elements
      hits == {i \in DOMAIN els : els[i].name = className}
      attributes ==
        IF hits = {} THEN <<>>
        ELSE els[CHOOSE i \in hits : \A j \in hits : i <= j].attributes
  IN  [kind |-> "service",
       className |-> className,
       varName |-> toLowerCamelCase(className),
       entityMapping |-> [i \in DOMAIN attributes |->
                            capitalize(attributes[i].name)],
       dtoMapping |-> [i \in DOMAIN attributes |->
                         capitalize(attributes[i].name)]]

\* reads this.currentContent: the first element named className
generateService(className, currentContent) ==
  LET els == currentContent.elements
      hits == {i \in DOMAIN els : els[i].name = className}
      attributes ==
        IF hits = {} THEN <<>>
        ELSE els[CHOOSE i \in hits : \A j \in hits : i <= j].attributes
      setter(attr) ==
        IF ToLowerCase(attr.name) # S_id THEN <<capitalize(attr.name)>>
        ELSE <<>>
  IN  [kind |-> "service",
       className |-> className,
       varName |-> toLowerCamelCase(className),
       entityMapping |-> FlatMap(setter, attributes),
       dtoMapping |-> [i \in DOMAIN attributes |->
                         capitalize(attributes[i].name)]]

generateController(className) ==
  [kind |-> "controller",
   className |-> className,
   varName |-> toLowerCamelCase(className),
   endpoint |-> toKebabCase(className)]

(***************************************************************************)
(* CodeGenerationFlutterService (Flutter target): utilities.               *)
(***************************************************************************)
\* str.replace(/([A-Z])/g, '_$1').toLowerCase().replace(/^_/, '')
flutterToSnakeCase(str) ==
  LET piece(c) == IF IsAsciiUpper(c) THEN <<95, c>> ELSE <<c>>
  IN  StripLeading(95, ToLowerCase(FlatMap(piece, str)))

\* str.replace(/([A-Z])/g, '-$1').toLowerCase().replace(/^-/, '')
flutterToKebabCase(str) ==
  LET piece(c) == IF IsAsciiUpper(c) THEN <<45, c>> ELSE <<c>>
  IN  StripLeading(45, ToLowerCase(FlatMap(piece, str)))

\* str.charAt(0).toLowerCase() + str.slice(1); str is a string here
toCamelCase(str) ==
  IF str = <<>> THEN <<>> ELSE <<ToLowerChar(str[1])>> \o Tail(str)

DartTypeMap ==
  [String |-> "String", Integer |-> "int", Long |-> "int",
   Double |-> "double", Float |-> "double", Boolean |-> "bool",
   Date |-> "DateTime", LocalDate |-> "DateTime",
   LocalDateTime |-> "DateTime", BigDecimal |-> "double"]

\* typeMap[javaType] || 'String'
mapJavaToDartType(javaType) ==
  IF javaType \in DOMAIN DartTypeMap THEN DartTypeMap[javaType] ELSE "String"

(***************************************************************************)
(* CodeGenerationFlutterService.analyzeRelationships.  Every branch gives  *)
(* the entries it pushes, as [key, info] in push order; the Map is the     *)
(* function from the keys that were set to their lists.                    *)
(***************************************************************************)
Info(type, targetClass, targetClassId, isOwner) ==
  [type |-> type, targetClass |-> targetClass,
   targetClassId |-> targetClassId, isOwner |-> isOwner]

\* variant that records the many side as not owning
manyToOneEntries_NotOwner(relation, fromClass, toClass) ==
  << [key |-> relation.from,
      info |-> Info(relation.type, toClass, relation.to, FALSE)] >>

manyToOneEntries(relation, fromClass, toClass) ==
  << [key |-> relation.from,
      info |-> Info(relation.type, toClass, relation.to, TRUE)] >>

\* variant that records the one side as the owner of a OneToMany
oneToManyEntries_Unrewritten(relation, fromClass, toClass) ==
  << [key |-> relation.from,
      info |-> Info(relation.type, toClass, relation.to, TRUE)] >>

oneToManyEntries(relation, fromClass, toClass) ==
  << [key |-> relation.to,
      info |-> Info("ManyToOne", fromClass, relation.from, TRUE)] >>

\* variant that records both ends as owners
manyToManyEntries_BothOwn(relation, fromClass, toClass) ==
  << [key |-> relation.from,
      info |-> Info(relation.type, toClass, relation.to, TRUE)],
     [key |-> relation.to,
      info |-> Info(relation.type, fromClass, relation.from, TRUE)] >>

manyToManyEntries(relation, fromClass, toClass) ==
  << [key |-> relation.from,
      info |-> Info(relation.type, toClass, relation.to, TRUE)],
     [key |-> relation.to,
      info |-> Info(relation.type, fromClass, relation.from, FALSE)] >>

oneToOneEntries(relation, fromClass, toClass) ==
  << [key |-> relation.from,
      info |-> Info(relation.type, toClass, relation.to, TRUE)] >>

inheritanceEntries(relation, fromClass, toClass) ==
  << [key |-> relation.from,
      info |-> Info(relation.type, toClass, relation.to, FALSE)] >>

\* variant that makes the container the owning many side
containmentEntries_ContainerOwns(relation, fromClass, toClass) ==
  << [key |-> relation.from,
      info |-> Info("ManyToOne", toClass, relation.to, TRUE)],
     [key |-> relation.to,
      info |-> Info("OneToMany", fromClass, relation.from, FALSE)] >>

containmentEntries(relation, fromClass, toClass) ==
  << [key |-> relation.from,
      info |-> Info("OneToMany", toClass, relation.to, FALSE)],
     [key |-> relation.to,
      info |-> Info("ManyToOne", fromClass, relation.from, TRUE)] >>

\* one iteration of the loop over the relations
relationEntries(elements, relation) ==
  LET fromClass == NameAt(elements, relation.from)
      toClass == NameAt(elements, relation.to)
  IN  IF Falsy(fromClass) \/ Falsy(toClass) THEN <<>>
      ELSE CASE relation.type = "ManyToOne" ->
                  manyToOneEntries(relation, fromClass, toClass)
             [] relation.type = "OneToMany" ->
                  oneToManyEntries(relation, fromClass, toClass)
             [] relation.type = "ManyToMany" ->
                  manyToManyEntries(relation, fromClass, toClass)
             [] relation.type = "OneToOne" ->
                  oneToOneEntries(relation, fromClass, toClass)
             [] relation.type = "Inheritance" ->
                  inheritanceEntries(relation, fromClass, toClass)
             [] relation.type \in {"Aggregation", "Composition"} ->
                  containmentEntries(relation, fromClass, toClass)
             [] OTHER -> <<>>

analyzeRelationships(diagramContent) ==
  LET entries(relation) == relationEntries(diagramContent.elements, relation)
      pushed == FlatMap(entries, diagramContent.relations)
      keys == {pushed[i].key : i \in DOMAIN pushed}
      listOf(k) == LET pick(e) == IF e.key = k THEN <<e.info>> ELSE <<>>
                   IN  FlatMap(pick, pushed)
  IN  [k \in keys |-> listOf(k)]

\* relationshipMap.get(classId) || []
relationshipsOf(relationshipMap, classId) ==
  IF classId \in DOMAIN relationshipMap THEN relationshipMap[classId]
  ELSE <<>>

(***************************************************************************)
(* CodeGenerationFlutterService.detectManyToManyAssignments.               *)
(***************************************************************************)
\* variant that names the assignment owner first, without the sort()
assignmentOf_Unsorted(elements, relation) ==
  LET ownerName == NameAt(elements, relation.from)
      inverseName == NameAt(elements, relation.to)
  IN  IF relation.type # "ManyToMany" THEN <<>>
      ELSE IF Falsy(ownerName) \/ Falsy(inverseName) THEN <<>>
      ELSE << [classA |-> ownerName, classB |-> inverseName,
               ownerName |-> ownerName, ownerId |-> relation.from,
               inverseName |-> inverseName, inverseId |-> relation.to,
               fileName |-> flutterToSnakeCase(
                    ownerName \o S_underscore \o inverseName
                      \o S__assignment)] >>

assignmentOf(elements, relation) ==
  LET ownerName == NameAt(elements, relation.from)
      inverseName == NameAt(elements, relation.to)
      \* [ownerName, inverseName].sort()
      first == IF StrLess(inverseName, ownerName) THEN inverseName
               ELSE ownerName
      second == IF StrLess(inverseName, ownerName) THEN ownerName
                ELSE inverseName
  IN  IF relation.type # "ManyToMany" THEN <<>>
      ELSE IF Falsy(ownerName) \/ Falsy(inverseName) THEN <<>>
      ELSE << [classA |-> first, classB |-> second,
               ownerName |-> ownerName, ownerId |-> relation.from,
               inverseName |-> inverseName, inverseId |-> relation.to,
               fileName |-> flutterToSnakeCase(
                    first \o S_underscore \o second \o S__assignment)] >>

detectManyToManyAssignments(diagramContent) ==
  LET one(relation) == assignmentOf(diagramContent.elements, relation)
  IN  FlatMap(one, diagramContent.relations)

(***************************************************************************)
(* CodeGenerationFlutterService.generateModel.                             *)
(***************************************************************************)
\* parent attributes first, then own, unique by lower-cased name
modelAttributes(classElement, relationships, diagramContent) ==
  LET inh == {i \in DOMAIN relationships :
                relationships[i].type = "Inheritance"}
      parentAttrs ==
        IF inh = {} THEN <<>>
        ELSE AttributesAt(diagramContent.elements,
               relationships[CHOOSE i \in inh : \A j \in inh : i <= j]
                 .targetClassId)
      all == parentAttrs \o classElement.attributes
      key(a) == IF Falsy(a.name) THEN <<>> ELSE ToLowerCase(a.name)
      kept == {i \in DOMAIN all :
                 /\ key(all[i]) # <<>>
                 /\ \A j \in 1..(i - 1) : key(all[j]) # key(all[i])}
      f[i \in 0..Len(all)] ==
        IF i = 0 THEN <<>>
        ELSE IF i \in kept THEN Append(f[i - 1], all[i]) ELSE f[i - 1]
  IN  f[Len(all)]

\* the ManyToMany relations that name the class at either end
modelManyToManyRelations(className, diagramContent) ==
  LET touches(r) ==
        IF /\ r.type = "ManyToMany"
           /\ \/ NameAt(diagramContent.elements, r.from) = className
              \/ NameAt(diagramContent.elements, r.to) = className
        THEN <<r>> ELSE <<>>
  IN  FlatMap(touches, diagramContent.relations)

\* fromName === className ? toName : fromName
modelOtherEnd(className, diagramContent, r) ==
  IF NameAt(diagramContent.elements, r.from) = className
  THEN NameAt(diagramContent.elements, r.to)
  ELSE NameAt(diagramContent.elements, r.from)

\* this.toCamelCase(other!) on undefined: TypeError
generateModelThrows(classElement, diagramContent) ==
  LET mm == modelManyToManyRelations(classElement.name, diagramContent)
  IN  \E i \in DOMAIN mm :
         modelOtherEnd(classElement.name, diagramContent, mm[i]) = Undefined

generateModel(classElement, relationships, diagramContent) ==
  LET className == classElement.name
      attributes ==
        modelAttributes(classElement, relationships, diagramContent)
      fk(rel) == IF rel.isOwner /\ rel.type \in {"ManyToOne", "OneToOne"}
                 THEN << toCamelCase(rel.targetClass) \o S_Id >> ELSE <<>>
      mm == modelManyToManyRelations(className, diagramContent)
  IN  [kind |-> "model",
       className |-> className,
       fields |-> [i \in DOMAIN attributes |->
                     [dartType |-> mapJavaToDartType(attributes[i].type),
                      name |-> toCamelCase(attributes[i].name)]],
       fkFields |-> FlatMap(fk, relationships),
       mmFields |-> [i \in DOMAIN mm |->
                       toCamelCase(modelOtherEnd(className, diagramContent,
                                                 mm[i])) \o S_Ids]]

(***************************************************************************)
(* CodeGenerationFlutterService: data service, form screens.               *)
(***************************************************************************)
flutterGenerateService(classElement) ==
  [kind |-> "dataService",
   className |-> classElement.name,
   endpoint |-> flutterToKebabCase(classElement.name),
   model |-> flutterToSnakeCase(classElement.name)]

\* FlutterFormGenerator.generateFormScreen: the text controllers (one per
\* attribute that is not the id) and the foreign-key selectors
generateFormScreen(classElement, relationships) ==
  LET controller(attr) ==
        IF ToLowerCase(attr.name) = S_id THEN <<>>
        ELSE << toCamelCase(attr.name) >>
      selector(rel) ==
        IF rel.isOwner /\ rel.type \in {"ManyToOne", "OneToOne"}
        THEN << [service |-> rel.targetClass,
                 targetClassId |-> rel.targetClassId,
                 field |-> toCamelCase(rel.targetClass) \o S_Id] >>
        ELSE <<>>
  IN  [kind |-> "form",
       className |-> classElement.name,
       controllers |-> FlatMap(controller, classElement.attributes),
       selectors |-> FlatMap(selector, relationships)]

generateManyToManyAssignmentForm(assignment) ==
  [kind |-> "assignment",
   ownerName |-> assignment.ownerName,
   inverseName |-> assignment.inverseName,
   ownerId |-> assignment.ownerId,
   inverseId |-> assignment.inverseId,
   fileName |-> assignment.fileName]

(***************************************************************************)
(* JSZip folders: folder.file(name, data) replaces an entry of the same    *)
(* name.  A folder is the function from its file names to their data.      *)
(***************************************************************************)
Folder(puts) ==
  [n \in {puts[i].name : i \in DOMAIN puts} |->
     LET hits == {i \in DOMAIN puts : puts[i].name = n}
     IN  puts[CHOOSE i \in hits : \A j \in hits : j <= i].data]

Put(name, data) == [name |-> name, data |-> data]

\* s.map(Op), one put per element
Puts(Op(_), s) == [i \in DOMAIN s |-> Op(s[i])]

(***************************************************************************)
(* CodeGenerationService.generateSpringBootProject, up to its only await   *)
(* (zip.generateAsync): the assignments to the two instance fields and the *)
(* files put into the archive.  oldMap is this.classIdToNameMap on entry.  *)
(***************************************************************************)
entityFileName(className) == className \o S_java
dtoFileName(className) == className \o S_DTOjava
repositoryFileName(className) == className \o S_Repositoryjava
serviceFileName(className) == className \o S_Servicejava
controllerFileName(className) == className \o S_Controllerjava

SpringBootScaffold ==
  {"Application.java", "application.properties", "pom.xml", "README.md",
   "setup.bat", "setup.sh", "database.config.template", ".gitignore",
   ".mvn/wrapper/maven-wrapper.properties", "mvnw", "mvnw.cmd",
   "QUICK_START.txt"}

generateSpringBootProject(content, oldMap) ==
  LET currentContent1 == content
      map == buildClassIdMap(oldMap, content.elements)
      entity(e) == Put(entityFileName(e.name),
                       generateEntity(e.name, e, content.relations, map))
      dto(e) == Put(dtoFileName(e.name), generateDTO(e.name, e))
      repository(e) == Put(repositoryFileName(e.name),
                           generateRepository(e.name))
      service(e) == Put(serviceFileName(e.name),
                        generateService(e.name, currentContent1))
      controller(e) == Put(controllerFileName(e.name),
                           generateController(e.name))
  IN  [currentContent |-> currentContent1,
       classIdToNameMap |-> map,
       files |-> [target |-> "springboot",
                  entity |-> Folder(Puts(entity, content.elements)),
                  dto |-> Folder(Puts(dto, content.elements)),
                  repository |-> Folder(Puts(repository, content.elements)),
                  service |-> Folder(Puts(service, content.elements)),
                  controller |-> Folder(Puts(controller, content.elements)),
                  scaffold |-> SpringBootScaffold]]

\* what generateSpringBootProject writes to the console, class by class
springBootProjectWarns(content, oldMap) ==
  LET map == buildClassIdMap(oldMap, content.elements)
      warns(e) ==
        entityWarns(e, entityParentClass(e.name, content.relations, map))
          \o dtoWarns(e)
  IN  FlatMap(warns, content.elements)

(***************************************************************************)
(* CodeGenerationFlutterService.generateFlutterProject, up to its only     *)
(* await.                                                                  *)
(***************************************************************************)
\* variant that names every model file alike
modelFileName_Shared(className) == S_dart

modelFileName(className) == flutterToSnakeCase(className) \o S_dart
dataServiceFileName(className) ==
  flutterToSnakeCase(className) \o S__servicedart
formFileName(className) == flutterToSnakeCase(className) \o S__formdart
assignmentFileName(assignment) == assignment.fileName \o S__formdart

FlutterScaffold ==
  {".env", "pubspec.yaml", ".gitignore", ".metadata",
   "analysis_options.yaml", "README.md", "lib/main.dart", "lib/config.dart",
   "lib/widgets/custom_dropdown.dart", "lib/widgets/loading_widget.dart",
   "lib/widgets/error_widget.dart", "lib/widgets/empty_state_widget.dart",
   "lib/screens/home_screen.dart"}

\* some generateModel call of the loop over the elements throws
generateFlutterProjectThrows(diagramContent) ==
  \E i \in DOMAIN diagramContent.elements :
     generateModelThrows(diagramContent.elements[i], diagramContent)

generateFlutterProject(diagramContent) ==
  LET relationshipMap == analyzeRelationships(diagramContent)
      manyToManyAssignments == detectManyToManyAssignments(diagramContent)
      model(e) == Put(modelFileName(e.name),
                      generateModel(e, relationshipsOf(relationshipMap, e.id),
                                    diagramContent))
      service(e) == Put(dataServiceFileName(e.name),
                        flutterGenerateService(e))
      form(e) == Put(formFileName(e.name),
                     generateFormScreen(e,
                        relationshipsOf(relationshipMap, e.id)))
      assignmentForm(a) == Put(assignmentFileName(a),
                               generateManyToManyAssignmentForm(a))
  IN  [relationshipMap |-> relationshipMap,
       files |-> [target |-> "flutter",
                  models |-> Folder(Puts(model, diagramContent.elements)),
                  services |-> Folder(Puts(service, diagramContent.elements)),
                  forms |-> Folder(Puts(form, diagramContent.elements)
                              \o Puts(assignmentForm, manyToManyAssignments)),
                  classList |-> [i \in DOMAIN diagramContent.elements |->
                                   diagramContent.elements[i].name],
                  scaffold |-> FlutterScaffold]]

(***************************************************************************)
(* JSZip: zip.file() stamps an entry with the time of the call unless a    *)
(* date option is given (the generators give none), and generateAsync      *)
(* writes the stamps into the entry headers.  The buffer is the files      *)
(* together with their stamp.                                              *)
(***************************************************************************)
generateAsync(files, date) == [files |-> files, date |-> date]

(***************************************************************************)
(* The diagrams the generators are run on.                                 *)
(***************************************************************************)
\* "c1", "c2", ...: the key of the i-th element
ClassId(i) == <<99, 48 + i>>

Attr(name, type) == [name |-> name, type |-> type]

\* Ab {id: Long, n: String} and BC {Id: Long, N: String, m: Money}
ClassShapes ==
  { [name |-> <<65, 98>>,
     attributes |-> << Attr(<<105, 100>>, "Long"), Attr(<<110>>, "String") >>],
    [name |-> <<66, 67>>,
     attributes |-> << Attr(<<73, 100>>, "Long"), Attr(<<78>>, "String"),
                       Attr(<<109>>, "Money") >>] }

RelationTypes ==
  {"OneToMany", "ManyToOne", "ManyToMany", "OneToOne", "Inheritance",
   "Aggregation", "Composition"}

\* the ids a relation may name: those of the elements and dangling ones
EndpointIds == {ClassId(i) : i \in 1..MaxClasses}

RelationInputs == [from : EndpointIds, to : EndpointIds, type : RelationTypes]

ElementLists ==
  UNION { { [i \in 1..n |-> [id |-> ClassId(i), name |-> shapes[i].name,
                             attributes |-> shapes[i].attributes]] :
              shapes \in [1..n -> ClassShapes] } : n \in 0..MaxClasses }

RelationLists == UNION { [1..n -> RelationInputs] : n \in 0..MaxRelations }

\* the column default of Diagram.content: {} has no elements
EmptyContent == [hasElements |-> FALSE, elements |-> <<>>, relations |-> <<>>]

Content(elements, relations) ==
  [hasElements |-> TRUE, elements |-> elements, relations |-> relations]

DiagramInputs ==
  {EmptyContent} \cup
  { Content(els, rels) : els \in ElementLists, rels \in RelationLists }

(***************************************************************************)
(* State.                                                                  *)
(***************************************************************************)
VARIABLES
  content,           \* Diagram.content of the stored diagram
  result,            \* what the last generation request returned
  currentContent,    \* CodeGenerationService.currentContent
  classIdToNameMap,  \* CodeGenerationService.classIdToNameMap
  calls,             \* the calls of the generators that are in flight
  now,               \* the wall clock
  console,           \* what the process has written with console.warn
  str,               \* the argument of the case conversions
  converted,         \* what the case conversions returned for str
  repository,        \* the rows of the generated LibroRepository, by id
  nextId,            \* the next identity value of the table
  response,          \* the last response of the generated controller
  requests,          \* the generation requests of the client, by number
  sent,              \* the events emitted to the client, in order, by request
  joined,            \* whether the client is in the room of the diagram
  ticks,             \* how many times a progress timer has fired
  diagramsRepository, \* the row of the diagram in diagramsRepository
  handlers,          \* the gateway handlers that mutate the diagram
  room               \* the events broadcast into the room of the diagram

\* the state of the generated service
serviceVars == <<repository, nextId, response>>

\* the state outside the generation requests
\* the state of the gateway
gatewayVars == <<requests, sent, joined, ticks>>

\* the state of the collaborative editing of the stored diagram
editVars == <<diagramsRepository, handlers, room>>

auxVars == <<str, converted, serviceVars, gatewayVars, editVars>>

vars ==
  <<content, result, currentContent, classIdToNameMap, calls, now, console,
    str, converted, repository, nextId, response, requests, sent, joined,
    ticks, diagramsRepository, handlers, room>>

NoFiles == [target |-> "none"]
NoResult ==
  [target |-> "none", status |-> "none",
   buffer |-> generateAsync(NoFiles, 0), relationshipMap |-> EmptyMap]

Thrown(target) ==
  [target |-> target, status |-> "error",
   buffer |-> generateAsync(NoFiles, 0), relationshipMap |-> EmptyMap]

Returned(target, files, date, relationshipMap) ==
  [target |-> target, status |-> "ok",
   buffer |-> generateAsync(files, date), relationshipMap |-> relationshipMap]

\* no conversion made yet
NoConversion == [op |-> "none", server |-> <<>>, client |-> <<>>]

\* the generated service before any request
EmptyRepository == [id \in {} |-> 0]

\* no body
NoBody == [id |-> 0, titulo |-> "", autor |-> "", isbn |-> ""]

NoResponse == [op |-> "none", id |-> 0, status |-> 0, body |-> NoBody]

IdleService ==
  /\ repository = EmptyRepository
  /\ nextId = 1
  /\ response = NoResponse

\* the generation requests of the client
Requests == 1..MaxRequests

\* a request the client has not sent yet
IdleRequest == [pc |-> "idle", kind |-> "none", progressInterval |-> FALSE]

\* the gateway after a client has connected
IdleGateway ==
  /\ requests = [r \in Requests |-> IdleRequest]
  /\ sent = [r \in 0..MaxRequests |-> <<>>]
  /\ joined = FALSE
  /\ ticks = 0

\* Diagram.content of a stored diagram: elements and relations by key, each
\* of the two maps present or not ({} is the default of the column)
StoredContent(elements, relations) ==
  [hasElements |-> TRUE, elements |-> elements,
   hasRelations |-> TRUE, relations |-> relations]

ColumnDefault ==
  [hasElements |-> FALSE, elements |-> EmptyMap,
   hasRelations |-> FALSE, relations |-> EmptyMap]

\* the users: the owner of the diagram, a user it is shared with, a user
\* without access
Owner == 1

SharedUser == 2

Stranger == 3

\* the Diagram entity with its owner and sharedWith relations
Row(diagramContent) ==
  [content |-> diagramContent, owner |-> Owner, sharedWith |-> {SharedUser}]

\* the two concurrent handlers of mutation messages
Handlers == {"h1", "h2"}

\* a handler that has received no message yet
IdleHandler ==
  [pc |-> "idle", op |-> "none", user |-> 0, key |-> "",
   existed |-> FALSE, loaded |-> ColumnDefault, toSave |-> ColumnDefault,
   saves |-> FALSE, outcome |-> "none"]

\* no client has sent a mutation message
IdleEditing ==
  /\ diagramsRepository = Row(ColumnDefault)
  /\ handlers = [h \in Handlers |-> IdleHandler]
  /\ room = {}

\* the two concurrent calls of the generators
Calls == {"r1", "r2"}

IdleCall ==
  [pc |-> "idle", target |-> "none", content |-> EmptyContent,
   files |-> NoFiles, date |-> 0, buffer |-> generateAsync(NoFiles, 0)]

(***************************************************************************)
(* DiagramsService.generateSpringBootCode and generateFlutterCode on the   *)
(* stored diagram, for a user who has access to it.  A behaviour of Spec   *)
(* is one request on one diagram.                                          *)
(***************************************************************************)
GenerateSpringBootCode ==
  /\ result.target = "none"
  /\ IF ~content.hasElements
     THEN /\ result' = Thrown("springboot")
          /\ UNCHANGED <<currentContent, classIdToNameMap, console>>
     ELSE LET g == generateSpringBootProject(content, classIdToNameMap)
          IN  /\ result' = Returned("springboot", g.files, now, EmptyMap)
              /\ currentContent' = g.currentContent
              /\ classIdToNameMap' = g.classIdToNameMap
              /\ console' =
                   console \o springBootProjectWarns(content, classIdToNameMap)
  /\ UNCHANGED <<content, calls, now, auxVars>>

GenerateFlutterCode ==
  /\ result.target = "none"
  /\ IF ~content.hasElements
     THEN result' = Thrown("flutter")
     ELSE IF Len(content.elements) = 0
     THEN result' = Thrown("flutter")
     ELSE IF generateFlutterProjectThrows(content)
     THEN result' = Thrown("flutter")
     ELSE LET g == generateFlutterProject(content)
          IN  result' = Returned("flutter", g.files, now, g.relationshipMap)
  /\ UNCHANGED <<content, currentContent, classIdToNameMap, calls, now,
                 console, auxVars>>

Init ==
  /\ content \in DiagramInputs
  /\ result = NoResult
  /\ currentContent = EmptyContent
  /\ classIdToNameMap = EmptyMap
  /\ calls = [c \in Calls |-> IdleCall]
  /\ now = 0
  /\ console = <<>>
  /\ str = <<>>
  /\ converted = NoConversion
  /\ IdleService
  /\ IdleGateway
  /\ IdleEditing

Next == GenerateSpringBootCode \/ GenerateFlutterCode

Spec == Init /\ [][Next]_vars

(***************************************************************************)
(* Two calls of the generators in flight on the one CodeGenerationService  *)
(* and the one CodeGenerationFlutterService of the process.  The body of   *)
(* an async function runs to completion up to its first await, and the     *)
(* only await of either generator is zip.generateAsync: the step that      *)
(* starts a call does everything before it, the step that finishes the     *)
(* call resolves the promise.  No file() call passes a date option, so     *)
(* JSZip stamps every entry with the time at which it was added.           *)
(***************************************************************************)
\* Ab with a relation to a class that does not exist
DanglingDiagram(type) ==
  Content(
    << [id |-> ClassId(1), name |-> <<65, 98>>,
        attributes |-> << Attr(<<105, 100>>, "Long") >>] >>,
    << [from |-> ClassId(1), to |-> ClassId(2), type |-> type] >>)

\* BC and Ab, BC many-to-one Ab
PairDiagram ==
  Content(
    << [id |-> ClassId(1), name |-> <<66, 67>>,
        attributes |-> << Attr(<<73, 100>>, "Long") >>],
       [id |-> ClassId(2), name |-> <<65, 98>>,
        attributes |-> << Attr(<<105, 100>>, "Long"),
                          Attr(<<110>>, "String") >>] >>,
    << [from |-> ClassId(1), to |-> ClassId(2), type |-> "ManyToOne"] >>)

ConcInputs ==
  {DanglingDiagram("OneToMany"), DanglingDiagram("ManyToMany"), PairDiagram}

InFlight(target, diagram, files, date) ==
  [pc |-> "zipping", target |-> target, content |-> diagram,
   files |-> files, date |-> date, buffer |-> generateAsync(NoFiles, 0)]

Failed(target, diagram) ==
  [pc |-> "failed", target |-> target, content |-> diagram,
   files |-> NoFiles, date |-> 0, buffer |-> generateAsync(NoFiles, 0)]

\* generateSpringBootProject up to the await of line 257
StartSpringBootProject(c) ==
  /\ calls[c].pc = "idle"
  /\ \E diagram \in ConcInputs :
       LET g == generateSpringBootProject(diagram, classIdToNameMap)
       IN  /\ calls' =
                [calls EXCEPT ![c] = InFlight("springboot", diagram, g.files, now)]
           /\ currentContent' = g.currentContent
           /\ classIdToNameMap' = g.classIdToNameMap
           /\ console' =
                console \o springBootProjectWarns(diagram, classIdToNameMap)
  /\ UNCHANGED <<content, result, now, auxVars>>

\* generateFlutterProject up to the await of line 121
StartFlutterProject(c) ==
  /\ calls[c].pc = "idle"
  /\ \E diagram \in ConcInputs :
       calls' =
         [calls EXCEPT ![c] =
            IF generateFlutterProjectThrows(diagram)
            THEN Failed("flutter", diagram)
            ELSE InFlight("flutter", diagram,
                          generateFlutterProject(diagram).files, now)]
  /\ UNCHANGED <<content, result, currentContent, classIdToNameMap, now,
                 console, auxVars>>

\* zip.generateAsync resolves and the call returns the buffer
FinishProject(c) ==
  /\ calls[c].pc = "zipping"
  /\ calls' =
       [calls EXCEPT ![c].pc = "done",
                     ![c].buffer = generateAsync(calls[c].files, calls[c].date)]
  /\ UNCHANGED <<content, result, currentContent, classIdToNameMap, now,
                 console, auxVars>>

\* time passes
Tick ==
  /\ now < MaxClock
  /\ now' = now + 1
  /\ UNCHANGED <<content, result, currentContent, classIdToNameMap, calls,
                 console, auxVars>>

InitConc ==
  /\ content = EmptyContent
  /\ result = NoResult
  /\ currentContent = EmptyContent
  /\ classIdToNameMap = EmptyMap
  /\ calls = [c \in Calls |-> IdleCall]
  /\ now = 0
  /\ console = <<>>
  /\ str = <<>>
  /\ converted = NoConversion
  /\ IdleService
  /\ IdleGateway
  /\ IdleEditing

NextConc ==
  \/ \E c \in Calls : StartSpringBootProject(c)
  \/ \E c \in Calls : StartFlutterProject(c)
  \/ \E c \in Calls : FinishProject(c)
  \/ Tick

SpecConc == InitConc /\ [][NextConc]_vars

(***************************************************************************)
(* generateFlutterCode on diagrams of MaxClasses classes with up to        *)
(* MaxPairRelations ManyToMany relations between them, in any direction.   *)
(* The i-th class is named Ab, Bb, Cb, ... or has the name of the first    *)
(* class.                                                                  *)
(***************************************************************************)
PairName(i) == <<64 + i, 98>>

PairElementLists ==
  { [i \in 1..MaxClasses |->
       [id |-> ClassId(i), name |-> names[i],
        attributes |-> << Attr(<<105, 100>>, "Long"),
                          Attr(<<110>>, "String") >>]] :
      names \in {f \in [1..MaxClasses -> {PairName(i) : i \in 1..MaxClasses}] :
                   \A i \in 1..MaxClasses : f[i] \in {PairName(i), PairName(1)}} }

ManyToManyInputs ==
  [from : EndpointIds, to : EndpointIds, type : {"ManyToMany"}]

PairDiagrams ==
  { Content(els, rels) :
      els \in PairElementLists,
      rels \in UNION { [1..n -> ManyToManyInputs] :
                         n \in 0..MaxPairRelations } }

InitPairs ==
  /\ content \in PairDiagrams
  /\ result = NoResult
  /\ currentContent = EmptyContent
  /\ classIdToNameMap = EmptyMap
  /\ calls = [c \in Calls |-> IdleCall]
  /\ now = 0
  /\ console = <<>>
  /\ str = <<>>
  /\ converted = NoConversion
  /\ IdleService
  /\ IdleGateway
  /\ IdleEditing

NextPairs == GenerateFlutterCode

SpecPairs == InitPairs /\ [][NextPairs]_vars

(***************************************************************************)
(* The generated server service and controller of one class (LibroService  *)
(* as generateService emits it, LibroController as generateController      *)
(* emits it) over a JPA repository: findById, existsById, save and         *)
(* deleteById act on the rows by id, save of a new entity draws the        *)
(* identity value.  A request is handled in one transaction.               *)
(***************************************************************************)
FieldValues == {"a", "b"}

\* LibroDTO: id (0 is null), titulo, autor, isbn
Dtos ==
  [id : 0..MaxId, titulo : FieldValues, autor : FieldValues, isbn : {"x"}]

\* convertToDTO
convertToDTO(libro) ==
  [id |-> libro.id, titulo |-> libro.titulo, autor |-> libro.autor,
   isbn |-> libro.isbn]

\* convertToEntity: the id of the DTO is not copied
convertToEntity(dto) ==
  [id |-> 0, titulo |-> dto.titulo, autor |-> dto.autor, isbn |-> dto.isbn]

\* updateEntityFromDTO: the setters of every attribute but the id
updateEntityFromDTO(libro, dto) ==
  [libro EXCEPT !.titulo = dto.titulo, !.autor = dto.autor,
                !.isbn = dto.isbn]

\* repository.save: a new entity gets the identity value
save(repo, next, libro) ==
  LET saved == IF libro.id = 0 THEN [libro EXCEPT !.id = next] ELSE libro
  IN  [repository |-> [id \in DOMAIN repo \cup {saved.id} |->
                         IF id = saved.id THEN saved ELSE repo[id]],
       nextId |-> IF libro.id = 0 THEN next + 1 ELSE next,
       saved |-> saved]

\* Optional.empty() and Optional.of(value)
OptionalEmpty == [present |-> FALSE, value |-> NoBody]

OptionalOf(value) == [present |-> TRUE, value |-> value]

\* LibroService.findById
serviceFindById(repo, id) ==
  IF id \in DOMAIN repo THEN OptionalOf(convertToDTO(repo[id]))
  ELSE OptionalEmpty

\* LibroService.create
serviceCreate(repo, next, dto) ==
  LET s == save(repo, next, convertToEntity(dto))
  IN  [repository |-> s.repository, nextId |-> s.nextId,
       result |-> convertToDTO(s.saved)]

\* variant of update that saves the entity under the id when it is absent
serviceUpdate_Upsert(repo, next, id, dto) ==
  LET existing == IF id \in DOMAIN repo THEN repo[id]
                  ELSE [convertToEntity(dto) EXCEPT !.id = id]
      s == save(repo, next, updateEntityFromDTO(existing, dto))
  IN  [repository |-> s.repository,
       result |-> OptionalOf(convertToDTO(s.saved))]

\* LibroService.update
serviceUpdate(repo, next, id, dto) ==
  IF id \in DOMAIN repo
  THEN LET s == save(repo, next, updateEntityFromDTO(repo[id], dto))
       IN  [repository |-> s.repository,
            result |-> OptionalOf(convertToDTO(s.saved))]
  ELSE [repository |-> repo, result |-> OptionalEmpty]

\* LibroService.delete
serviceDelete(repo, id) ==
  IF id \in DOMAIN repo
  THEN [repository |-> [k \in DOMAIN repo \ {id} |-> repo[k]],
        result |-> TRUE]
  ELSE [repository |-> repo, result |-> FALSE]

Response(op, id, status, body) ==
  [op |-> op, id |-> id, status |-> status, body |-> body]

generationVars ==
  <<content, result, currentContent, classIdToNameMap, calls, now, console,
    str, converted>>

\* GET /{id}
GetById(id) ==
  /\ LET found == serviceFindById(repository, id)
     IN  response' = IF found.present
                     THEN Response("getById", id, 200, found.value)
                     ELSE Response("getById", id, 404, NoBody)
  /\ UNCHANGED <<repository, nextId, generationVars, gatewayVars, editVars>>

\* POST
Create(dto) ==
  /\ nextId <= MaxId
  /\ LET c == serviceCreate(repository, nextId, dto)
     IN  /\ repository' = c.repository
         /\ nextId' = c.nextId
         /\ response' = Response("create", c.result.id, 201, c.result)
  /\ UNCHANGED <<generationVars, gatewayVars, editVars>>

\* PUT /{id}
Update(id, dto) ==
  /\ LET u == serviceUpdate(repository, nextId, id, dto)
     IN  /\ repository' = u.repository
         /\ response' = IF u.result.present
                         THEN Response("update", id, 200, u.result.value)
                         ELSE Response("update", id, 404, NoBody)
  /\ UNCHANGED <<nextId, generationVars, gatewayVars, editVars>>

\* DELETE /{id}
Delete(id) ==
  /\ LET d == serviceDelete(repository, id)
     IN  /\ repository' = d.repository
         /\ response' = IF d.result THEN Response("delete", id, 204, NoBody)
                         ELSE Response("delete", id, 404, NoBody)
  /\ UNCHANGED <<nextId, generationVars, gatewayVars, editVars>>

InitService ==
  /\ content = EmptyContent
  /\ result = NoResult
  /\ currentContent = EmptyContent
  /\ classIdToNameMap = EmptyMap
  /\ calls = [c \in Calls |-> IdleCall]
  /\ now = 0
  /\ console = <<>>
  /\ str = <<>>
  /\ converted = NoConversion
  /\ IdleService
  /\ IdleGateway
  /\ IdleEditing

NextService ==
  \/ \E id \in 1..MaxId : GetById(id)
  \/ \E dto \in Dtos : Create(dto)
  \/ \E id \in 1..MaxId, dto \in Dtos : Update(id, dto)
  \/ \E id \in 1..MaxId : Delete(id)

SpecService == InitService /\ [][NextService]_vars

(***************************************************************************)
(* The case conversions of the two generators on one name.  A name is any  *)
(* string of A, b, N-tilde (U+00D1, an uppercase letter outside [A-Z]),    *)
(* underscore and hyphen.                                                  *)
(***************************************************************************)
NameChars == {65, 98, 209, 95, 45}

Names == UNION { [1..n -> NameChars] : n \in 0..MaxNameLen }

\* generateController (server) and generateService (client) derive the path
ConvertKebab ==
  /\ converted.op = "none"
  /\ converted' = [op |-> "kebab", server |-> toKebabCase(str),
                                   client |-> flutterToKebabCase(str)]
  /\ UNCHANGED <<content, result, currentContent, classIdToNameMap, calls,
                 now, console, str, serviceVars, gatewayVars,
                 editVars>>

\* generateEntity (server) and generateFlutterProject (client) derive the
\* table name and the file name
ConvertSnake ==
  /\ converted.op = "none"
  /\ converted' = [op |-> "snake", server |-> toSnakeCase(str),
                                   client |-> flutterToSnakeCase(str)]
  /\ UNCHANGED <<content, result, currentContent, classIdToNameMap, calls,
                 now, console, str, serviceVars, gatewayVars,
                 editVars>>

InitNames ==
  /\ content = EmptyContent
  /\ result = NoResult
  /\ currentContent = EmptyContent
  /\ classIdToNameMap = EmptyMap
  /\ calls = [c \in Calls |-> IdleCall]
  /\ now = 0
  /\ console = <<>>
  /\ str \in Names
  /\ converted = NoConversion
  /\ IdleService
  /\ IdleGateway
  /\ IdleEditing

NextNames == ConvertKebab \/ ConvertSnake

SpecNames == InitNames /\ [][NextNames]_vars

(***************************************************************************)
(* Vocabulary of the properties.                                           *)
(***************************************************************************)
Range(s) == {s[i] : i \in DOMAIN s}

Exists(id) == id \in ElementIds(content.elements)

NameOf(id) == NameAt(content.elements, id)

\* both ends are classes of the diagram, two classes of different names
WellFormedPair(r) ==
  /\ Exists(r.from)
  /\ Exists(r.to)
  /\ NameOf(r.from) # NameOf(r.to)

Dangling(r) == ~Exists(r.from) \/ ~Exists(r.to)

DistinctNames ==
  \A i, j \in DOMAIN content.elements :
     i # j => content.elements[i].name # content.elements[j].name

ServerDone == result.target = "springboot" /\ result.status = "ok"

ClientDone == result.target = "flutter" /\ result.status = "ok"

\* the entity file of the class of that name
EntityOf(files, className) == files.entity[entityFileName(className)]

\* the diagram with the i-th relation authored the other way round
Swapped(i) ==
  Content(content.elements,
          [content.relations EXCEPT
             ![i] = [from |-> @.to, to |-> @.from, type |-> @.type]])

\* the diagram with its only relation replaced
WithOnlyRelation(r) == Content(content.elements, <<r>>)

\* the join tables that owner's entity declares for its ManyToMany to target
OwningJoinTables(files, owner, target) ==
  {f.joinTable : f \in {g \in Range(EntityOf(files, owner).relationFields) :
                          /\ g.annotation = "ManyToMany"
                          /\ g.joinTable # <<>>
                          /\ g.targetClass = target}}

SortedJoin(a, b) ==
  IF StrLess(a, b) THEN a \o S_underscore \o b ELSE b \o S_underscore \o a

(***************************************************************************)
(* C1: for two distinct existing classes X and Y, the join table that the  *)
(* server entity generator emits on the owning side of a ManyToMany is the *)
(* same whether the relation is authored X -> Y or Y -> X, and it is the   *)
(* sorted pair of the two classes' snake-case table names.                 *)
(***************************************************************************)
C1_JoinTableOrderIndependent ==
  ServerDone =>
    \A i \in DOMAIN content.relations :
       LET r == content.relations[i]
           X == NameOf(r.from)
           Y == NameOf(r.to)
       IN  (r.type = "ManyToMany" /\ WellFormedPair(r)) =>
             LET files == result.buffer.files
                 other == generateSpringBootProject(Swapped(i), EmptyMap).files
                 expected == SortedJoin(EntityOf(files, X).table,
                                        EntityOf(files, Y).table)
             IN  /\ OwningJoinTables(files, X, Y) = {expected}
                 /\ OwningJoinTables(other, Y, X) = {expected}

(***************************************************************************)
(* C2: for an Inheritance relation {from: C, to: P} between existing       *)
(* classes, C is the child in both targets: the client resolver gives C    *)
(* the entry {target P, isOwner false, Inheritance} and P none, and the    *)
(* server entity of C extends P and has no id field while the entity of P  *)
(* carries the inheritance-root annotation.                                *)
(***************************************************************************)
C2_InheritanceChildIsFrom ==
  \A i \in DOMAIN content.relations :
     LET r == content.relations[i]
         C == NameOf(r.from)
         P == NameOf(r.to)
     IN  (r.type = "Inheritance" /\ WellFormedPair(r)) =>
           /\ ClientDone =>
                /\ Info("Inheritance", P, r.to, FALSE) \in
                     Range(relationshipsOf(result.relationshipMap, r.from))
                /\ Len(content.relations) = 1 =>
                     r.to \notin DOMAIN result.relationshipMap
           /\ ServerDone =>
                /\ EntityOf(result.buffer.files, C).extends = P
                /\ \A a \in Range(EntityOf(result.buffer.files, C).attributes) :
                      ~a.isId
                /\ EntityOf(result.buffer.files, P).inheritanceRoot

(***************************************************************************)
(* C3: the server entity of the child (from) of an Inheritance relation    *)
(* declares no field whose name equals, case-insensitively, the name of an *)
(* attribute of its parent (to), and declares no id field.                 *)
(***************************************************************************)
C3_ChildRedeclaresNothing ==
  ServerDone =>
    \A i \in DOMAIN content.relations :
       LET r == content.relations[i]
           parentNames ==
             {ToLowerCase(a.name) :
                a \in Range(AttributesAt(content.elements, r.to))}
       IN  (r.type = "Inheritance" /\ WellFormedPair(r)) =>
             \A a \in Range(EntityOf(result.buffer.files,
                                     NameOf(r.from)).attributes) :
                /\ ToLowerCase(a.name) \notin parentNames
                /\ ToLowerCase(a.name) # S_id

(***************************************************************************)
(* C4: when the relations of a diagram all have an endpoint id that is not *)
(* a key of elements, generation completes for both targets and the        *)
(* relations contribute nothing: the client resolver's map is empty and no *)
(* server entity has a relationship field.                                 *)
(***************************************************************************)
C4_DanglingRelationDropped ==
  ( /\ result.target # "none"
    /\ Len(content.elements) >= 1
    /\ Len(content.relations) >= 1
    /\ \A i \in DOMAIN content.relations : Dangling(content.relations[i]) )
  =>
    /\ result.status = "ok"
    /\ result.target = "flutter" => result.relationshipMap = EmptyMap
    /\ result.target = "springboot" =>
         \A n \in DOMAIN result.buffer.files.entity :
            result.buffer.files.entity[n].relationFields = <<>>

(***************************************************************************)
(* C5: for existing classes A and B, the client resolver gives the diagram *)
(* whose only relation is {from: A, to: B, ManyToOne} and the diagram      *)
(* whose only relation is {from: B, to: A, OneToMany} the same map: A's    *)
(* list is the single entry {ManyToOne, target B, isOwner true} and B has  *)
(* no entry.                                                               *)
(***************************************************************************)
\* the other authoring of the same fact
Mirror(r) ==
  [from |-> r.to, to |-> r.from,
   type |-> IF r.type = "ManyToOne" THEN "OneToMany" ELSE "ManyToOne"]

\* the many side A and the one side B of the relation
ManySide(r) == IF r.type = "ManyToOne" THEN r.from ELSE r.to
OneSide(r) == IF r.type = "ManyToOne" THEN r.to ELSE r.from

C5_ManyToOneOneToManySymmetry ==
  ( /\ ClientDone
    /\ Len(content.relations) = 1
    /\ content.relations[1].type \in {"ManyToOne", "OneToMany"}
    /\ ~Dangling(content.relations[1]) )
  =>
    LET r == content.relations[1]
        A == ManySide(r)
        B == OneSide(r)
    IN  /\ result.relationshipMap =
             [k \in {A} |-> << Info("ManyToOne", NameOf(B), B, TRUE) >>]
        /\ analyzeRelationships(WithOnlyRelation(Mirror(r))) =
             result.relationshipMap

\* a OneToMany between two classes has been resolved
C5_Witness ==
  /\ ClientDone
  /\ Len(content.relations) = 1
  /\ content.relations[1].type = "OneToMany"
  /\ WellFormedPair(content.relations[1])

(***************************************************************************)
(* C6: generation is refused with an error, and no archive is returned,    *)
(* whenever the elements map of the diagram has zero classes, for the      *)
(* server target as well as for the client target.                         *)
(***************************************************************************)
C6_ZeroClassesRefused ==
  ( /\ result.target # "none"
    /\ content.hasElements
    /\ Len(content.elements) = 0 )
  => result.status = "error"

(***************************************************************************)
(* C7: for the only relation {from: A, to: B} of a diagram, an Aggregation *)
(* or a Composition between existing classes, the server entity of A has   *)
(* one cascading collection field of B and the server entity of B has no   *)
(* field derived from the relation.                                        *)
(***************************************************************************)
C7_ContainmentOwnedByContainer ==
  ( /\ ServerDone
    /\ Len(content.relations) = 1
    /\ content.relations[1].type \in {"Aggregation", "Composition"}
    /\ WellFormedPair(content.relations[1]) )
  =>
    LET r == content.relations[1]
        ofA == EntityOf(result.buffer.files, NameOf(r.from)).relationFields
        ofB == EntityOf(result.buffer.files, NameOf(r.to)).relationFields
    IN  /\ Len(ofA) = 1
        /\ ofA[1].targetClass = NameOf(r.to)
        /\ ofA[1].collection = "List"
        /\ ofA[1].cascade
        /\ ofB = <<>>

(***************************************************************************)
(* C8: whatever the interleaving of two calls of the generators on the     *)
(* shared instances, the files of a call are the files the same call       *)
(* produces alone, on a fresh instance: currentContent and                 *)
(* classIdToNameMap as another call left them have no influence.           *)
(***************************************************************************)
AloneFiles(target, diagram) ==
  IF target = "springboot"
  THEN generateSpringBootProject(diagram, EmptyMap).files
  ELSE generateFlutterProject(diagram).files

Started(c) == calls[c].pc \in {"zipping", "done"}

C8_ConcurrentCallsIndependent ==
  \A c \in Calls :
     Started(c) =>
       /\ calls[c].files = AloneFiles(calls[c].target, calls[c].content)
       /\ calls[c].pc = "done" =>
            calls[c].buffer.files =
              AloneFiles(calls[c].target, calls[c].content)

\* a server call on the diagram with a dangling end has returned; it was
\* started while the call on the diagram that names that id was in flight
C8_Witness ==
  /\ calls["r1"].pc = "zipping"
  /\ calls["r1"].target = "springboot"
  /\ calls["r1"].content = PairDiagram
  /\ calls["r2"].pc = "done"
  /\ calls["r2"].target = "springboot"
  /\ calls["r2"].content = DanglingDiagram("OneToMany")
  /\ currentContent = DanglingDiagram("OneToMany")

(***************************************************************************)
(* C10: two calls of the same generator with the same diagram content      *)
(* return byte-identical archive buffers, whenever they are made.          *)
(***************************************************************************)
C10_SameInputSameBytes ==
  \A c1, c2 \in Calls :
     ( /\ calls[c1].pc = "done"
       /\ calls[c2].pc = "done"
       /\ calls[c1].target = calls[c2].target
       /\ calls[c1].content = calls[c2].content )
     => calls[c1].buffer = calls[c2].buffer

(***************************************************************************)
(* C9 as stated: for a diagram with N classes and relations whose          *)
(* endpoints all exist, the server archive has exactly N files in each of  *)
(* entity, dto, repository, service and controller, and the client archive *)
(* exactly N files in models, N in services and N per-class forms.         *)
(***************************************************************************)
NFiles(folder) == Cardinality(DOMAIN folder)

\* the per-class form files of the forms folder
ClassForms(forms) == {n \in DOMAIN forms : forms[n].kind = "form"}

ArchiveCounts(N) ==
  /\ ServerDone =>
       /\ NFiles(result.buffer.files.entity) = N
       /\ NFiles(result.buffer.files.dto) = N
       /\ NFiles(result.buffer.files.repository) = N
       /\ NFiles(result.buffer.files.service) = N
       /\ NFiles(result.buffer.files.controller) = N
       /\ result.buffer.files.scaffold = SpringBootScaffold
  /\ ClientDone =>
       /\ NFiles(result.buffer.files.models) = N
       /\ NFiles(result.buffer.files.services) = N
       /\ Cardinality(ClassForms(result.buffer.files.forms)) = N
       /\ result.buffer.files.scaffold = FlutterScaffold

AllEndpointsExist ==
  \A i \in DOMAIN content.relations : ~Dangling(content.relations[i])

DistinctSnakeNames ==
  \A i, j \in DOMAIN content.elements :
     i # j =>
       flutterToSnakeCase(content.elements[i].name) #
         flutterToSnakeCase(content.elements[j].name)

IsUpperLetter(c) == ToLowerChar(c) # c

IsLetter(c) == ToLowerChar(c) # c \/ ToUpperChar(c) # c

IsPascalCase(s) ==
  /\ Len(s) >= 1
  /\ IsUpperLetter(s[1])
  /\ \A i \in DOMAIN s : IsLetter(s[i])

C11_KebabServerEqualsClient ==
  (converted.op = "kebab" /\ IsPascalCase(str)) =>
     converted.server = converted.client

(***************************************************************************)
(* C12: for an attribute whose type is outside the closed type table, both *)
(* generators emit a field of the default text type (Java String, Dart     *)
(* String), generation completes, and a non-fatal diagnostic for the       *)
(* unknown type is written by the server type mapper and by the client     *)
(* type mapper alike.                                                      *)
(***************************************************************************)
Diagnosed(by, type) ==
  \E w \in Range(console) : w.by = by /\ w.type = type

ServerFieldOfDefaultType(e, a) ==
  /\ \E f \in Range(EntityOf(result.buffer.files, e.name).attributes) :
        f.name = a.name /\ f.javaType = "String"
  /\ \E f \in Range(result.buffer.files.dto[dtoFileName(e.name)].fields) :
        f.name = a.name /\ f.javaType = "String"

ClientFieldOfDefaultType(e, a) ==
  \E f \in Range(result.buffer.files.models[modelFileName(e.name)].fields) :
     f.name = toCamelCase(a.name) /\ f.dartType = "String"

C12_UnknownTypeDiagnosed ==
  \A i \in DOMAIN content.elements :
     \A k \in DOMAIN content.elements[i].attributes :
        LET e == content.elements[i]
            a == e.attributes[k]
        IN  ( /\ a.type \notin DOMAIN JavaTypeMap
              /\ result.target # "none"
              /\ AllEndpointsExist
              /\ DistinctNames )
            =>
              /\ result.status = "ok"
              /\ ServerDone =>
                   /\ ServerFieldOfDefaultType(e, a)
                   /\ Diagnosed("mapTypeToJava", a.type)
              /\ ClientDone =>
                   /\ ClientFieldOfDefaultType(e, a)
                   /\ Diagnosed("mapJavaToDartType", a.type)

(***************************************************************************)
(* C13, as the sentence states it: when two or more ManyToMany relations   *)
(* join the same unordered pair of classes, in either direction, the       *)
(* client archive holds exactly one many-to-many assignment form for that  *)
(* pair, named from the two class names in sorted order.                   *)
(***************************************************************************)
\* the assignment form files of the pair of classes x, y
AssignmentFormsOf(forms, x, y) ==
  {n \in DOMAIN forms :
     /\ forms[n].kind = "assignment"
     /\ {forms[n].ownerId, forms[n].inverseId} = {x, y}}

\* snake(first_second_assignment) + _form.dart, first <= second
SortedAssignmentFile(a, b) ==
  flutterToSnakeCase(
    (IF StrLess(b, a) THEN b \o S_underscore \o a
     ELSE a \o S_underscore \o b) \o S__assignment) \o S__formdart

SamePair(r1, r2) ==
  /\ r1.type = "ManyToMany"
  /\ r2.type = "ManyToMany"
  /\ ~Dangling(r1)
  /\ {r1.from, r1.to} = {r2.from, r2.to}

OnlyRelationBetween(i) ==
  \A j \in DOMAIN content.relations :
     j # i =>
       {content.relations[j].from, content.relations[j].to} #
         {content.relations[i].from, content.relations[i].to}

C14_ManyToOneDerivedNames ==
  \A i \in DOMAIN content.relations :
     LET r == content.relations[i]
         X == NameOf(r.from)
         Y == NameOf(r.to)
     IN  ( /\ r.type = "ManyToOne"
           /\ ~Dangling(r)
           /\ DistinctNames
           /\ OnlyRelationBetween(i) )
         =>
           /\ ServerDone =>
                LET fields == EntityOf(result.buffer.files, X).relationFields
                    toY == {k \in DOMAIN fields : fields[k].targetClass = Y}
                IN  /\ Cardinality(toY) = 1
                    /\ \A k \in toY :
                          /\ fields[k].annotation = "ManyToOne"
                          /\ fields[k].collection = "none"
                          /\ fields[k].joinColumn = toSnakeCase(Y) \o S__id
           /\ ClientDone =>
                LET files == result.buffer.files
                    model == files.models[modelFileName(X)]
                    form == files.forms[formFileName(X)]
                IN  /\ (toCamelCase(Y) \o S_Id) \in Range(model.fkFields)
                    /\ \E sel \in Range(form.selectors) :
                          /\ sel.service = Y
                          /\ sel.targetClassId = r.to
                          /\ sel.field = toCamelCase(Y) \o S_Id

\* BC many-to-one Ab has been generated: ab_id and abId
C14_Witness ==
  /\ result.status = "ok"
  /\ Len(content.relations) = 1
  /\ content.relations[1].type = "ManyToOne"
  /\ WellFormedPair(content.relations[1])
  /\ NameOf(content.relations[1].from) = <<66, 67>>
  /\ NameOf(content.relations[1].to) = <<65, 98>>

(***************************************************************************)
(* C15: for an Aggregation or Composition {from: A, to: B} between two     *)
(* existing classes joined by no other relation, the client resolver gives *)
(* A the entry {OneToMany, target B, isOwner false} and B the entry        *)
(* {ManyToOne, target A, isOwner true}; the model of B carries the         *)
(* foreign-id field and the form of B the selector, the model and the form *)
(* of A carry none for B.                                                  *)
(***************************************************************************)
C15_ContainmentReciprocalPair ==
  ClientDone =>
    \A i \in DOMAIN content.relations :
       LET r == content.relations[i]
           A == NameOf(r.from)
           B == NameOf(r.to)
           files == result.buffer.files
           ofA == relationshipsOf(result.relationshipMap, r.from)
           ofB == relationshipsOf(result.relationshipMap, r.to)
       IN  ( /\ r.type \in {"Aggregation", "Composition"}
             /\ WellFormedPair(r)
             /\ DistinctNames
             /\ OnlyRelationBetween(i) )
           =>
             /\ Info("OneToMany", B, r.to, FALSE) \in Range(ofA)
             /\ Info("ManyToOne", A, r.from, TRUE) \in Range(ofB)
             /\ Cardinality({k \in DOMAIN ofA :
                               ofA[k].targetClassId = r.to}) = 1
             /\ Cardinality({k \in DOMAIN ofB :
                               ofB[k].targetClassId = r.from}) = 1
             /\ Len(content.relations) = 1 =>
                  DOMAIN result.relationshipMap = {r.from, r.to}
             /\ (toCamelCase(A) \o S_Id) \in
                  Range(files.models[modelFileName(B)].fkFields)
             /\ \E sel \in Range(files.forms[formFileName(B)].selectors) :
                   sel.service = A /\ sel.field = toCamelCase(A) \o S_Id
             /\ (toCamelCase(B) \o S_Id) \notin
                  Range(files.models[modelFileName(A)].fkFields)
             /\ \A sel \in Range(files.forms[formFileName(A)].selectors) :
                   sel.service # B

\* the client has generated a diagram with a Composition between two classes
C15_Witness ==
  /\ ClientDone
  /\ Len(content.relations) = 1
  /\ content.relations[1].type = "Composition"
  /\ WellFormedPair(content.relations[1])

(***************************************************************************)
(* C16: a ManyToMany relation {from: X, to: Y} between two existing        *)
(* classes adds exactly one entry to each end: {ManyToMany, target Y,      *)
(* isOwner true} to the list of X and {ManyToMany, target X, isOwner       *)
(* false} to the list of Y; the list of no other class changes.  The       *)
(* resolver's map is compared with its map for the diagram without the     *)
(* relation.                                                               *)
(***************************************************************************)
\* the diagram without its i-th relation
WithoutRelation(i) ==
  Content(content.elements,
          SubSeq(content.relations, 1, i - 1) \o
          SubSeq(content.relations, i + 1, Len(content.relations)))

Count(seq, x) == Cardinality({k \in DOMAIN seq : seq[k] = x})

\* list is old with one more entry, and that entry is info
OneMore(old, list, info) ==
  /\ Len(list) = Len(old) + 1
  /\ Count(list, info) = Count(old, info) + 1
  /\ \A x \in Range(old) : Count(list, x) >= Count(old, x)

LastOfName(i) ==
  \A j \in DOMAIN content.elements :
     j > i => content.elements[j].name # content.elements[i].name

C17_DtoOwnAttributesOnly ==
  ServerDone =>
    \A i \in {k \in DOMAIN content.elements : LastOfName(k)} :
       LET e == content.elements[i]
           dto == result.buffer.files.dto[dtoFileName(e.name)]
       IN  /\ Len(dto.fields) = Len(e.attributes)
           /\ \A k \in DOMAIN e.attributes :
                 /\ dto.fields[k].name = e.attributes[k].name
                 /\ dto.fields[k].javaType = mapTypeToJava(e.attributes[k].type)
           /\ Len(dto.accessors) = Len(e.attributes)

\* the server has generated two classes joined by a relation that gives
\* the entity of each a relationship field
C17_Witness ==
  /\ ServerDone
  /\ Len(content.relations) = 1
  /\ content.relations[1].type = "OneToOne"
  /\ WellFormedPair(content.relations[1])
  /\ \A n \in DOMAIN result.buffer.files.entity :
        result.buffer.files.entity[n].relationFields # <<>>

(***************************************************************************)
(* C18: in the generated service and controller, update(id, dto) and       *)
(* delete(id) for an id that is not in the repository leave the repository *)
(* unchanged and answer 404; for an id that is present, update saves the   *)
(* entity with the attributes of the dto under the same id, leaves the     *)
(* other rows alone and answers 200 with the saved entity, and delete      *)
(* removes exactly that row and answers 204.                               *)
(***************************************************************************)
OthersUntouched(id) ==
  \A k \in DOMAIN repository \ {id} :
     k \in DOMAIN repository' /\ repository'[k] = repository[k]

UpdatePost(id, dto) ==
  IF id \notin DOMAIN repository
  THEN /\ repository' = repository
       /\ response' = Response("update", id, 404, NoBody)
  ELSE /\ DOMAIN repository' = DOMAIN repository
       /\ OthersUntouched(id)
       /\ repository'[id] =
            [id |-> id, titulo |-> dto.titulo, autor |-> dto.autor,
             isbn |-> dto.isbn]
       /\ response' = Response("update", id, 200, repository'[id])

DeletePost(id) ==
  IF id \notin DOMAIN repository
  THEN /\ repository' = repository
       /\ response' = Response("delete", id, 404, NoBody)
  ELSE /\ DOMAIN repository' = DOMAIN repository \ {id}
       /\ OthersUntouched(id)
       /\ response' = Response("delete", id, 204, NoBody)

C18_UpdateDeleteNotFound ==
  [][ /\ \A id \in 1..MaxId, dto \in Dtos :
           Update(id, dto) => UpdatePost(id, dto)
      /\ \A id \in 1..MaxId :
           Delete(id) => DeletePost(id) ]_vars

\* with two rows stored, an update of an absent id has been answered 404
\* after one row was deleted
C18_Witness ==
  /\ response.op = "update"
  /\ response.status = 404
  /\ Cardinality(DOMAIN repository) = 1
  /\ nextId = 3

(***************************************************************************)
(* C19: for every name (a PascalCase name: letters only, the first one     *)
(* uppercase), snake(name) is the name with an underscore inserted before  *)
(* every uppercase letter that is not the first character, lower-cased; it *)
(* never starts with an underscore; the server's toSnakeCase and the       *)
(* client's toSnakeCase return the same string.                            *)
(***************************************************************************)
\* the conversion as the sentence defines it
SnakeAsDefined(name) ==
  LET f[i \in 0..Len(name)] ==
        IF i = 0 THEN <<>>
        ELSE f[i - 1] \o
             (IF i > 1 /\ IsUpperLetter(name[i])
              THEN <<95, ToLowerChar(name[i])>>
              ELSE <<ToLowerChar(name[i])>>)
  IN  f[Len(name)]

NoLeadingUnderscore(s) == s = <<>> \/ s[1] # 95

C19_SnakeCaseDefinition ==
  (converted.op = "snake" /\ IsPascalCase(str)) =>
     /\ converted.server = SnakeAsDefined(str)
     /\ converted.client = SnakeAsDefined(str)
     /\ NoLeadingUnderscore(converted.server)
     /\ NoLeadingUnderscore(converted.client)
     /\ converted.server = converted.client

(***************************************************************************)
(* DiagramGateway: the generation requests of one connected client on one  *)
(* diagram.  A handler runs to its first await in one step, together with  *)
(* the microtask it leaves behind (the rejection handler of a promise that *)
(* is rejected already); the answer of the AI service and a firing of a    *)
(* progress timer are steps of their own.  An emit is the send; the events *)
(* of a request are kept in the order of their emission, those that       *)
(* belong to no request under 0.                                           *)
(***************************************************************************)
\* what a message carries: nothing, the fields of the handler's type, or
\* these without imageData
Payloads == {"undefined", "complete", "noImageData"}

PromptPayloads == {"undefined", "complete"}

\* (client as any).user: undefined until handleConnection has verified the
\* token
Users == {"undefined", "verified"}

\* client.emit('diagram:generating') of a handler
acknowledgement == <<"diagram:generating">>

onRejected_Unhandled == <<>>

\* the .catch of a handler
onRejected == <<"diagram:generateError">>

\* processGenerateFromPrompt up to its await: the timer is armed, then
\* user.sub is read for the call of the service
processGenerateFromPrompt(user) ==
  [progressInterval |-> TRUE,
   promise |-> IF user = "undefined" THEN "rejected" ELSE "pending"]

\* processGenerateFromImage up to its await: the timer is armed, then
\* Buffer.from(imageData, 'base64'), then user.sub
processGenerateFromImage(payload, user) ==
  [progressInterval |-> TRUE,
   promise |-> IF payload = "noImageData" THEN "rejected"
               ELSE IF user = "undefined" THEN "rejected"
               ELSE "pending"]

\* a process method after its await has returned: the room of the diagram,
\* then the client
generated(inRoom) ==
  (IF inRoom THEN <<"diagram:generated">> ELSE <<>>)
    \o <<"diagram:generated">>

\* a handler from its acknowledgement on, p being what its process method
\* has done up to its await
Handled(r, kind, p) ==
  /\ requests' =
       [requests EXCEPT ![r] =
          [pc |-> IF p.promise = "rejected" THEN "failed" ELSE "awaiting",
           kind |-> kind, progressInterval |-> p.progressInterval]]
  /\ sent' =
       [sent EXCEPT ![r] =
          @ \o acknowledgement
            \o (IF p.promise = "rejected" THEN onRejected ELSE <<>>)]

\* a handler whose destructuring of the payload throws
Thrown_NoPayload(r, kind) ==
  /\ requests' = [requests EXCEPT ![r] =
                    [pc |-> "thrown", kind |-> kind,
                     progressInterval |-> FALSE]]
  /\ sent' = sent

\* 'diagram:generateFromPrompt'
HandleGenerateFromPrompt(r, payload, user) ==
  /\ requests[r].pc = "idle"
  /\ IF payload = "undefined"
     THEN Thrown_NoPayload(r, "prompt")
     ELSE Handled(r, "prompt", processGenerateFromPrompt(user))
  /\ UNCHANGED <<joined, ticks, generationVars, serviceVars, editVars>>

\* 'diagram:generateFromImage'
HandleGenerateFromImage(r, payload, user) ==
  /\ requests[r].pc = "idle"
  /\ IF payload = "undefined"
     THEN Thrown_NoPayload(r, "image")
     ELSE Handled(r, "image", processGenerateFromImage(payload, user))
  /\ UNCHANGED <<joined, ticks, generationVars, serviceVars, editVars>>

\* the call of the AI service returns: the timer is cleared, the diagram is
\* emitted
AiReturns(r) ==
  /\ requests[r].pc = "awaiting"
  /\ requests' = [requests EXCEPT ![r].pc = "generated",
                                  ![r].progressInterval = FALSE]
  /\ sent' = [sent EXCEPT ![r] = @ \o generated(joined)]
  /\ UNCHANGED <<joined, ticks, generationVars, serviceVars, editVars>>

\* the call of the AI service fails: the process method rethrows, the timer
\* stays armed
AiFails(r) ==
  /\ requests[r].pc = "awaiting"
  /\ requests' = [requests EXCEPT ![r].pc = "failed"]
  /\ sent' = [sent EXCEPT ![r] = @ \o onRejected]
  /\ UNCHANGED <<joined, ticks, generationVars, serviceVars, editVars>>

AiSettles(r) == AiReturns(r) \/ AiFails(r)

\* the callback of setInterval, every ten seconds while the timer is armed
ProgressInterval(r) ==
  /\ requests[r].progressInterval
  /\ ticks < MaxTicks
  /\ ticks' = ticks + 1
  /\ sent' = [sent EXCEPT ![r] = @ \o <<"diagram:generating">>]
  /\ UNCHANGED <<requests, joined, generationVars, serviceVars, editVars>>

\* 'joinDiagram', once in a behaviour: findOne returns the diagram or throws
JoinDiagram(found) ==
  /\ ~joined
  /\ IF found
     THEN /\ joined' = TRUE
          /\ sent' = [sent EXCEPT ![0] = @ \o <<"diagram:init">>]
     ELSE UNCHANGED <<joined, sent>>
  /\ UNCHANGED <<requests, ticks, generationVars, serviceVars, editVars>>

InitGateway ==
  /\ content = EmptyContent
  /\ result = NoResult
  /\ currentContent = EmptyContent
  /\ classIdToNameMap = EmptyMap
  /\ calls = [c \in Calls |-> IdleCall]
  /\ now = 0
  /\ console = <<>>
  /\ str = <<>>
  /\ converted = NoConversion
  /\ IdleService
  /\ IdleGateway
  /\ IdleEditing

NextGateway ==
  \/ \E r \in Requests, payload \in PromptPayloads, user \in Users :
       HandleGenerateFromPrompt(r, payload, user)
  \/ \E r \in Requests, payload \in Payloads, user \in Users :
       HandleGenerateFromImage(r, payload, user)
  \/ \E r \in Requests : AiReturns(r)
  \/ \E r \in Requests : AiFails(r)
  \/ \E r \in Requests : ProgressInterval(r)
  \/ \E found \in BOOLEAN : JoinDiagram(found)

\* every call of the AI service returns or fails in the end
SpecGateway ==
  /\ InitGateway
  /\ [][NextGateway]_vars
  /\ \A r \in Requests : WF_vars(AiSettles(r))

\* the events that end a request
Terminal == {"diagram:generated", "diagram:generateError"}

TerminalSent(r) == \E i \in DOMAIN sent[r] : sent[r][i] \in Terminal

AcknowledgedFirst ==
  \A r \in Requests : \A i \in DOMAIN sent[r] :
     sent[r][i] \in Terminal =>
        \E j \in 1..(i - 1) : sent[r][j] = "diagram:generating"

(***************************************************************************)
(* C20: for every 'diagram:generateFromPrompt' and every                   *)
(* 'diagram:generateFromImage' message, the requesting client is sent      *)
(* 'diagram:generating' before any terminal event of that request, and a   *)
(* request whose call of the AI service is in flight leads to              *)
(* 'diagram:generated' or 'diagram:generateError' being sent to the        *)
(* requesting client, given that the call returns or fails in the end.     *)
(***************************************************************************)
C20_AcknowledgedThenTerminal ==
  /\ []AcknowledgedFirst
  /\ \A r \in Requests :
       (requests[r].pc = "awaiting") ~> TerminalSent(r)

\* a prompt request that was answered and an image request that failed,
\* each after its call of the AI service
C20_Witness ==
  \E r1, r2 \in Requests :
     /\ requests[r1] = [pc |-> "generated", kind |-> "prompt",
                        progressInterval |-> FALSE]
     /\ requests[r2] = [pc |-> "failed", kind |-> "image",
                        progressInterval |-> TRUE]
     /\ \E i, j \in DOMAIN sent[r2] :
          /\ i < j
          /\ sent[r2][i] = "diagram:generating"
          /\ sent[r2][j] = "diagram:generateError"
     /\ TerminalSent(r1)

(***************************************************************************)
(* C21: once a generation request has ended, with 'diagram:generated' or   *)
(* with 'diagram:generateError', no further 'diagram:generating' event is  *)
(* emitted for it.                                                         *)
(***************************************************************************)
C21_NoProgressAfterEnd ==
  \A r \in Requests : \A i, j \in DOMAIN sent[r] :
     (i < j /\ sent[r][i] \in Terminal) => sent[r][j] # "diagram:generating"

(***************************************************************************)
(* DiagramsService and DiagramGateway on one stored diagram: the mutation  *)
(* handlers.  A handler reads the row (findOne), changes its copy in       *)
(* memory and saves the copy; the read and the write are two steps, with   *)
(* the steps of other handlers between them.  Keys are strings, users are  *)
(* the ids of their tokens; a missing property of an object is a has-flag  *)
(* that is FALSE.                                                          *)
(***************************************************************************)
ClassKeys == {"c1", "c2"}

RelationKeys == {"r1"}

UserIds == {Owner, SharedUser, Stranger}

\* an element with the properties the editor gives a class
Element(name, attributes) ==
  [hasName |-> TRUE, name |-> name, hasAttributes |-> TRUE,
   attributes |-> attributes, hasPosition |-> TRUE]

\* {}
EmptyObject ==
  [hasName |-> FALSE, name |-> "", hasAttributes |-> FALSE,
   attributes |-> <<>>, hasPosition |-> FALSE]

\* { position }
OnlyPosition == [EmptyObject EXCEPT !.hasPosition = TRUE]

\* { ...old, ...new }
Spread(old, new) ==
  [hasName |-> old.hasName \/ new.hasName,
   name |-> IF new.hasName THEN new.name ELSE old.name,
   hasAttributes |-> old.hasAttributes \/ new.hasAttributes,
   attributes |-> IF new.hasAttributes THEN new.attributes
                  ELSE old.attributes,
   hasPosition |-> old.hasPosition \/ new.hasPosition]

\* map[k] = v
SetKey(map, k, v) ==
  [x \in DOMAIN map \cup {k} |-> IF x = k THEN v ELSE map[x]]

\* delete map[k] for the keys of ks
DeleteKeys(map, ks) == [x \in DOMAIN map \ ks |-> map[x]]

\* what a method of the service does with the diagram it has read: it
\* throws, it returns the diagram unsaved, or it saves it
Throws(c) == [throws |-> TRUE, saves |-> FALSE, content |-> c]

Returns(c) == [throws |-> FALSE, saves |-> FALSE, content |-> c]

Saves(c) == [throws |-> FALSE, saves |-> TRUE, content |-> c]

\* the access check of findOne
hasAccess(row, user) == row.owner = user \/ user \in row.sharedWith

\* if (!diagram.content.elements) diagram.content.elements = {}
withElements(c) == [c EXCEPT !.hasElements = TRUE]

\* if (!diagram.content.relations) diagram.content.relations = {}
withRelations(c) == [c EXCEPT !.hasRelations = TRUE]

\* diagram.content.elements?.[classId]
HasElement(c, classId) == c.hasElements /\ classId \in DOMAIN c.elements

\* diagram.content.relations?.[relationId]
HasRelation(c, relationId) ==
  c.hasRelations /\ relationId \in DOMAIN c.relations

\* update(id, { content }, user): Object.assign and save
update(c, newContent) == Saves(newContent)

updateElement(c, elementId, elementData) ==
  LET old == IF HasElement(c, elementId) THEN c.elements[elementId]
             ELSE EmptyObject
  IN  Saves([withElements(c) EXCEPT
               !.elements = SetKey(@, elementId, Spread(old, elementData))])

moveElement(c, elementId) == updateElement(c, elementId, OnlyPosition)

addAttribute(c, classId, attribute) ==
  IF ~HasElement(c, classId) THEN Throws(c)
  ELSE LET e == c.elements[classId]
       IN  Saves([c EXCEPT !.elements[classId] =
                    [e EXCEPT !.hasAttributes = TRUE,
                              !.attributes = e.attributes \o <<attribute>>]])

\* attrIndex counts from 0
updateAttribute(c, classId, attrIndex, newData) ==
  IF ~HasElement(c, classId) THEN Throws(c)
  ELSE IF attrIndex + 1 \notin DOMAIN c.elements[classId].attributes
  THEN Throws(c)
  ELSE Saves([c EXCEPT !.elements[classId].attributes[attrIndex + 1] =
                [name |-> IF newData.hasName THEN newData.name ELSE @.name,
                 type |-> IF newData.hasType THEN newData.type ELSE @.type]])

removeAttribute(c, classId, attrIndex) ==
  IF ~HasElement(c, classId) THEN Throws(c)
  ELSE IF attrIndex + 1 \notin DOMAIN c.elements[classId].attributes
  THEN Throws(c)
  ELSE LET attrs == c.elements[classId].attributes
       IN  Saves([c EXCEPT !.elements[classId].attributes =
                    SubSeq(attrs, 1, attrIndex)
                      \o SubSeq(attrs, attrIndex + 2, Len(attrs))])

\* { ...classData, attributes: classData.attributes || [] }
addClass(c, classId, classData) ==
  IF HasElement(c, classId) THEN Throws(withElements(c))
  ELSE Saves([withElements(c) EXCEPT
                !.elements = SetKey(@, classId,
                                [classData EXCEPT !.hasAttributes = TRUE])])

removeClass_KeepsRelations(c, classId) ==
  IF ~HasElement(c, classId) THEN Throws(c)
  ELSE Saves([c EXCEPT !.elements = DeleteKeys(@, {classId})])

removeClass(c, classId) ==
  IF ~HasElement(c, classId) THEN Throws(c)
  ELSE Saves([c EXCEPT
                !.relations =
                   DeleteKeys(@, {k \in DOMAIN c.relations :
                                    \/ c.relations[k].from = classId
                                    \/ c.relations[k].to = classId}),
                !.elements = DeleteKeys(@, {classId})])

addRelation(c, relationId, relationData) ==
  IF HasRelation(c, relationId) THEN Throws(withRelations(c))
  ELSE Saves([withRelations(c) EXCEPT
                !.relations = SetKey(@, relationId, relationData)])

\* relationData is a Partial: here it carries a type
updateRelation(c, relationId, relationData) ==
  IF ~HasRelation(c, relationId) THEN Returns(c)
  ELSE Saves([c EXCEPT !.relations[relationId].type = relationData.type])

removeRelation(c, relationId) ==
  IF ~HasRelation(c, relationId) THEN Returns(c)
  ELSE Saves([c EXCEPT !.relations = DeleteKeys(@, {relationId})])

\* console.warn of updateRelation and removeRelation
relationWarns(by, c, relationId) ==
  IF HasRelation(c, relationId) THEN <<>>
  ELSE << [level |-> "warn", by |-> by, type |-> relationId] >>

\* handleElementMoved after findOne: the element and its position, then
\* update
elementMoved(c, elementId) ==
  LET old == IF HasElement(c, elementId) THEN c.elements[elementId]
             ELSE EmptyObject
  IN  update(c, [withElements(c) EXCEPT
                   !.elements = SetKey(@, elementId,
                                       [old EXCEPT !.hasPosition = TRUE])])

\* handleUpdateClass after findOne: elements[classId] is read without a
\* guard on elements; name = newData.name || name
updateClass(c, classId, newData) ==
  IF ~c.hasElements THEN Throws(c)
  ELSE LET old == IF classId \in DOMAIN c.elements THEN c.elements[classId]
                  ELSE EmptyObject
           named == IF newData.hasName /\ newData.name # ""
                    THEN [old EXCEPT !.hasName = TRUE, !.name = newData.name]
                    ELSE old
       IN  update(c, [c EXCEPT !.elements = SetKey(@, classId, named)])

\* an event broadcast into the room, with what the handler that emitted it
\* had found (whether the element or relation of that key existed in the
\* diagram it read) and done (whether it has written the row)
Broadcast(event, h, user, key, existed, saved) ==
  [event |-> event, handler |-> h, user |-> user, key |-> key,
   existed |-> existed, saved |-> saved]

\* a handler whose service call is p, up to the write of the row: the events
\* it emits before the call, and the event it emits after the call when the
\* call returns without a write
Call(h, op, user, key, existed, p, swallow, before) ==
  LET denied == ~hasAccess(diagramsRepository, user)
      failed == denied \/ p.throws
  IN  /\ handlers[h].pc = "idle"
      /\ handlers' =
           [handlers EXCEPT ![h] =
              [pc |-> IF failed \/ ~p.saves THEN "done" ELSE "saving",
               op |-> op, user |-> user, key |-> key, existed |-> existed,
               loaded |-> diagramsRepository.content,
               toSave |-> IF failed THEN diagramsRepository.content
                          ELSE p.content,
               saves |-> ~failed /\ p.saves,
               outcome |-> IF failed THEN (IF swallow THEN "caught"
                                           ELSE "error")
                           ELSE IF p.saves THEN "none" ELSE "ok"]]
      /\ room' = room \cup before \cup
                 (IF ~failed /\ ~p.saves
                  THEN {Broadcast(op, h, user, key, existed, FALSE)}
                  ELSE {})
      /\ UNCHANGED diagramsRepository

\* the row is written: repository.save of the copy the handler holds, then
\* the emit that follows the call of the service
Save(h) ==
  /\ handlers[h].pc = "saving"
  /\ diagramsRepository' =
       [diagramsRepository EXCEPT !.content = handlers[h].toSave]
  /\ handlers' = [handlers EXCEPT ![h].pc = "done", ![h].outcome = "ok"]
  /\ room' =
       IF handlers[h].op \in {"element:moved", "diagram:update",
                              "updateElement"}
       THEN room
       ELSE room \cup {Broadcast(handlers[h].op, h, handlers[h].user,
                                 handlers[h].key, handlers[h].existed,
                                 TRUE)}
  /\ UNCHANGED <<generationVars, serviceVars, gatewayVars>>

\* a handler that calls no method of the service
NoCall(h, op, user, key) ==
  /\ handlers[h].pc = "idle"
  /\ handlers' =
       [handlers EXCEPT ![h] =
          [IdleHandler EXCEPT !.pc = "done", !.op = op, !.user = user,
                              !.key = key, !.outcome = "ok",
                              !.loaded = diagramsRepository.content,
                              !.toSave = diagramsRepository.content]]
  /\ room' = room \cup {Broadcast(op, h, user, key, FALSE, FALSE)}
  /\ UNCHANGED diagramsRepository

\* the payloads of the messages
Attribute == [name |-> "x", type |-> "String"]

AttributeData == [hasName |-> TRUE, name |-> "y", hasType |-> FALSE, type |-> ""]

ClassData == [EmptyObject EXCEPT !.hasName = TRUE, !.name = "C",
                                 !.hasPosition = TRUE]

ClassNewData == [hasName |-> TRUE, name |-> "Z"]

RelationData == [from |-> "c1", to |-> "c2", type |-> "OneToMany"]

RelationNewData == [type |-> "ManyToMany"]

EditedContent == StoredContent([k \in {"c1"} |-> Element("A", <<>>)], EmptyMap)

stored == diagramsRepository.content

otherVars == <<generationVars, serviceVars, gatewayVars>>

\* 'diagram:update'
HandleDiagramUpdate(h, user, persist) ==
  /\ IF persist
     THEN Call(h, "diagram:update", user, "", FALSE,
               update(stored, EditedContent), FALSE,
               {Broadcast("diagram:update", h, user, "", FALSE, FALSE)})
     ELSE NoCall(h, "diagram:update", user, "")
  /\ UNCHANGED otherVars

\* 'element:moving'
HandleElementMoving(h, user, elementId) ==
  /\ NoCall(h, "element:moving", user, elementId)
  /\ UNCHANGED otherVars

\* 'element:moved': the emit, then findOne, the position, update
HandleElementMoved(h, user, elementId) ==
  /\ Call(h, "element:moved", user, elementId, HasElement(stored, elementId),
          elementMoved(stored, elementId), FALSE,
          {Broadcast("element:moved", h, user, elementId, FALSE, FALSE)})
  /\ UNCHANGED otherVars

\* 'cursor:update'
HandleCursorUpdate(h, user) ==
  /\ NoCall(h, "cursor:update", user, "")
  /\ UNCHANGED otherVars

\* DiagramsService.moveElement, which no handler of the gateway calls
MoveElement(h, user, elementId) ==
  /\ Call(h, "updateElement", user, elementId, HasElement(stored, elementId),
          moveElement(stored, elementId), FALSE, {})
  /\ UNCHANGED otherVars

\* 'attribute:add'
HandleAddAttribute(h, user, classId) ==
  /\ HasElement(stored, classId) =>
       Len(stored.elements[classId].attributes) < MaxAttributes
  /\ Call(h, "attribute:add", user, classId, HasElement(stored, classId),
          addAttribute(stored, classId, Attribute), FALSE, {})
  /\ UNCHANGED otherVars

\* 'attribute:update'
HandleUpdateAttribute(h, user, classId) ==
  /\ Call(h, "attribute:update", user, classId, HasElement(stored, classId),
          updateAttribute(stored, classId, 0, AttributeData), FALSE, {})
  /\ UNCHANGED otherVars

\* 'attribute:remove'
HandleRemoveAttribute(h, user, classId) ==
  /\ Call(h, "attribute:remove", user, classId, HasElement(stored, classId),
          removeAttribute(stored, classId, 0), FALSE, {})
  /\ UNCHANGED otherVars

\* 'class:add'
HandleAddClass(h, user, classId) ==
  /\ Call(h, "class:add", user, classId, HasElement(stored, classId),
          addClass(stored, classId, ClassData), FALSE, {})
  /\ UNCHANGED otherVars

\* 'class:update': findOne, the name, update
HandleUpdateClass(h, user, classId) ==
  /\ Call(h, "class:update", user, classId, HasElement(stored, classId),
          updateClass(stored, classId, ClassNewData), FALSE, {})
  /\ UNCHANGED otherVars

\* 'class:remove'
HandleRemoveClass(h, user, classId) ==
  /\ Call(h, "class:remove", user, classId, HasElement(stored, classId),
          removeClass(stored, classId), FALSE, {})
  /\ UNCHANGED otherVars

\* 'relation:add'
HandleAddRelation(h, user, relationId) ==
  /\ Call(h, "relation:add", user, relationId, HasRelation(stored, relationId),
          addRelation(stored, relationId, RelationData), FALSE, {})
  /\ UNCHANGED otherVars

\* what a relation handler and its method of the service write to the
\* console
relationHandlerWarns(by, user, relationId) ==
  IF ~hasAccess(diagramsRepository, user)
  THEN << [level |-> "warn", by |-> by, type |-> relationId] >>
  ELSE relationWarns(by, stored, relationId)

unwarnedVars ==
  <<content, result, currentContent, classIdToNameMap, calls, now, str,
    converted, serviceVars, gatewayVars>>

\* 'relation:update'
HandleUpdateRelation(h, user, relationId) ==
  /\ Call(h, "relation:update", user, relationId,
          HasRelation(stored, relationId),
          updateRelation(stored, relationId, RelationNewData), TRUE, {})
  /\ console' = console \o relationHandlerWarns("updateRelation", user,
                                                relationId)
  /\ UNCHANGED unwarnedVars

\* 'relation:remove'
HandleRemoveRelation(h, user, relationId) ==
  /\ Call(h, "relation:remove", user, relationId,
          HasRelation(stored, relationId),
          removeRelation(stored, relationId), TRUE, {})
  /\ console' = console \o relationHandlerWarns("removeRelation", user,
                                                relationId)
  /\ UNCHANGED unwarnedVars

\* the diagrams a behaviour starts from: the default of the column, or the
\* class A, with or without a class B, with or without a relation r1 from A
\* to B or from A to itself
StoredInputs ==
  {ColumnDefault} \cup
  { StoredContent(els, rels) :
      els \in { [k \in {"c1"} |-> Element("A", <<>>)],
                [k \in ClassKeys |->
                   IF k = "c1" THEN Element("A", <<>>)
                   ELSE Element("B", <<>>)] },
      rels \in { EmptyMap,
                 [k \in RelationKeys |->
                    [from |-> "c1", to |-> "c2", type |-> "OneToMany"]],
                 [k \in RelationKeys |->
                    [from |-> "c1", to |-> "c1", type |-> "OneToOne"]] } }

InitEditing ==
  /\ content = EmptyContent
  /\ result = NoResult
  /\ currentContent = EmptyContent
  /\ classIdToNameMap = EmptyMap
  /\ calls = [c \in Calls |-> IdleCall]
  /\ now = 0
  /\ console = <<>>
  /\ str = <<>>
  /\ converted = NoConversion
  /\ IdleService
  /\ IdleGateway
  /\ diagramsRepository \in {Row(c) : c \in StoredInputs}
  /\ handlers = [h \in Handlers |-> IdleHandler]
  /\ room = {}

NextEditing ==
  \/ \E h \in Handlers, user \in UserIds, persist \in BOOLEAN :
       HandleDiagramUpdate(h, user, persist)
  \/ \E h \in Handlers, user \in UserIds, k \in ClassKeys :
       HandleElementMoving(h, user, k)
  \/ \E h \in Handlers, user \in UserIds, k \in ClassKeys :
       HandleElementMoved(h, user, k)
  \/ \E h \in Handlers, user \in UserIds : HandleCursorUpdate(h, user)
  \/ \E h \in Handlers, user \in UserIds, k \in ClassKeys :
       MoveElement(h, user, k)
  \/ \E h \in Handlers, user \in UserIds, k \in ClassKeys :
       HandleAddAttribute(h, user, k)
  \/ \E h \in Handlers, user \in UserIds, k \in ClassKeys :
       HandleUpdateAttribute(h, user, k)
  \/ \E h \in Handlers, user \in UserIds, k \in ClassKeys :
       HandleRemoveAttribute(h, user, k)
  \/ \E h \in Handlers, user \in UserIds, k \in ClassKeys :
       HandleAddClass(h, user, k)
  \/ \E h \in Handlers, user \in UserIds, k \in ClassKeys :
       HandleUpdateClass(h, user, k)
  \/ \E h \in Handlers, user \in UserIds, k \in ClassKeys :
       HandleRemoveClass(h, user, k)
  \/ \E h \in Handlers, user \in UserIds, k \in RelationKeys :
       HandleAddRelation(h, user, k)
  \/ \E h \in Handlers, user \in UserIds, k \in RelationKeys :
       HandleUpdateRelation(h, user, k)
  \/ \E h \in Handlers, user \in UserIds, k \in RelationKeys :
       HandleRemoveRelation(h, user, k)
  \/ \E h \in Handlers : Save(h)

SpecEditing == InitEditing /\ [][NextEditing]_vars

(***************************************************************************)
(* C22: a 'relation:update' or 'relation:remove' event is broadcast into   *)
(* the room only when the relation existed and the request has written the *)
(* diagram.                                                                *)
(***************************************************************************)
C22_RelationBroadcastOnlyWhenChanged ==
  \A e \in room :
     e.event \in {"relation:update", "relation:remove"} =>
        e.existed /\ e.saved

(***************************************************************************)
(* C23: when removeClass on class c has completed, the content it saved    *)
(* has neither the element c nor a relation from or to c, and has every    *)
(* other element and every other relation of the content it had read,      *)
(* unchanged; the content is written to the row as it is; when c is not in *)
(* the diagram the call fails and the row is not written.                  *)
(***************************************************************************)
Touches(rel, classId) == rel.from = classId \/ rel.to = classId

RemovedFrom(read, saved, classId) ==
  LET untouched == {k \in DOMAIN read.relations :
                      ~Touches(read.relations[k], classId)}
  IN  /\ DOMAIN saved.elements = DOMAIN read.elements \ {classId}
      /\ \A k \in DOMAIN saved.elements :
            saved.elements[k] = read.elements[k]
      /\ DOMAIN saved.relations = untouched
      /\ \A k \in untouched : saved.relations[k] = read.relations[k]
      /\ saved.hasElements = read.hasElements
      /\ saved.hasRelations = read.hasRelations

RemoveClassSaved ==
  \A h \in Handlers :
     handlers[h].op = "class:remove" =>
        /\ handlers[h].saves =>
              RemovedFrom(handlers[h].loaded, handlers[h].toSave,
                          handlers[h].key)
        /\ ~HasElement(handlers[h].loaded, handlers[h].key) =>
              /\ handlers[h].outcome = "error"
              /\ ~handlers[h].saves

RemoveClassWrites ==
  \A h \in Handlers :
     /\ (handlers[h].op = "class:remove" /\ handlers[h].pc = "saving"
         /\ handlers'[h].pc = "done") =>
           diagramsRepository'.content = handlers[h].toSave
     /\ (handlers[h].pc = "idle" /\ handlers'[h].op = "class:remove") =>
           diagramsRepository' = diagramsRepository

C23_RemoveClass == []RemoveClassSaved /\ [][RemoveClassWrites]_vars

\* class c1 of a diagram with a second class and a relation from c1 to it
\* has been removed and the row written
C23_Witness ==
  \E h \in Handlers :
     /\ handlers[h].op = "class:remove"
     /\ handlers[h].outcome = "ok"
     /\ handlers[h].key = "c1"
     /\ DOMAIN handlers[h].loaded.elements = ClassKeys
     /\ DOMAIN handlers[h].loaded.relations = RelationKeys
     /\ handlers[h].loaded.relations["r1"].to = "c2"
     /\ stored = handlers[h].toSave

(***************************************************************************)
(* C24: when two handlers that add to the diagram (an attribute to a       *)
(* class, or a class) have both completed without error, the stored        *)
(* content has what each of them added.                                    *)
(***************************************************************************)
Reflected(h) ==
  /\ HasElement(stored, handlers[h].key)
  /\ handlers[h].op = "attribute:add" =>
        \E i \in DOMAIN stored.elements[handlers[h].key].attributes :
           stored.elements[handlers[h].key].attributes[i] = Attribute

Added(h) ==
  /\ handlers[h].op \in {"attribute:add", "class:add"}
  /\ handlers[h].outcome = "ok"

C24_NoLostUpdate ==
  \A h1, h2 \in Handlers :
     (h1 # h2 /\ Added(h1) /\ Added(h2)) => Reflected(h1) /\ Reflected(h2)

(***************************************************************************)
(* C25: every event broadcast into the room of the diagram comes from a    *)
(* user who is the owner of the diagram or is in its sharedWith list.      *)
(***************************************************************************)
C25_BroadcastOnlyWithAccess ==
  \A e \in room : hasAccess(diagramsRepository, e.user)

(***************************************************************************)
(* C26: every element of the stored content has a name and an attributes   *)
(* list.                                                                   *)
(***************************************************************************)
C26_ElementsKeepNameAndAttributes ==
  \A k \in DOMAIN stored.elements :
     stored.elements[k].hasName /\ stored.elements[k].hasAttributes

(***************************************************************************)
(* C27: in a diagram whose class names are pairwise distinct and whose     *)
(* attribute names are unique within each class, the client model of a     *)
(* class declares no two fields of the same name, over its attribute       *)
(* fields, its foreign-id fields and its many-to-many id-list fields.      *)
(***************************************************************************)
UniqueAttributeNames ==
  \A i \in DOMAIN content.elements :
     \A j, k \in DOMAIN content.elements[i].attributes :
        j # k => content.elements[i].attributes[j].name #
                   content.elements[i].attributes[k].name

\* the names of the fields a model declares, in the order of the file
FieldNames(model) ==
  [i \in DOMAIN model.fields |-> model.fields[i].name]
    \o model.fkFields \o model.mmFields

NoDuplicates(s) == \A i, j \in DOMAIN s : i # j => s[i] # s[j]

C27_ModelFieldsDistinct ==
  (ClientDone /\ DistinctNames /\ UniqueAttributeNames) =>
     \A i \in DOMAIN content.elements :
        NoDuplicates(FieldNames(
          result.buffer.files.models[modelFileName(content.elements[i].name)]))

(***************************************************************************)
(* C28: in the generated server service the primary key of a stored entity *)
(* is never taken from a transfer object.  The setters that create(dto)    *)
(* and update(id, dto) call on the entity (convertToEntity and             *)
(* updateEntityFromDTO share them) are those of every attribute whose name *)
(* is not "id" in any letter case, in declaration order, and the id setter *)
(* is not among them; the setters convertToDTO calls on the transfer       *)
(* object are those of every attribute, the id included.                   *)
(***************************************************************************)
IsId(attr) == ToLowerCase(attr.name) = S_id

\* the setter names of the attributes that are not the id, in order
NonIdSetters(attributes) ==
  LET f[i \in 0..Len(attributes)] ==
        IF i = 0 THEN <<>>
        ELSE IF IsId(attributes[i]) THEN f[i - 1]
        ELSE Append(f[i - 1], capitalize(attributes[i].name))
  IN  f[Len(attributes)]

C28_IdNeverFromDto ==
  ServerDone =>
    \A i \in DOMAIN content.elements :
       LET e == content.elements[i]
           service == result.buffer.files.service[serviceFileName(e.name)]
       IN  /\ service.entityMapping = NonIdSetters(e.attributes)
           /\ \A k \in DOMAIN service.entityMapping :
                 ToLowerCase(service.entityMapping[k]) # S_id
           /\ Len(service.dtoMapping) = Len(e.attributes)
           /\ \A k \in DOMAIN e.attributes :
                 service.dtoMapping[k] = capitalize(e.attributes[k].name)

\* the server has generated the services of a class that declares "id" and
\* of a class that declares "Id": neither entity mapping has the id setter,
\* both transfer-object mappings have it
C28_Witness ==
  /\ ServerDone
  /\ \E i, j \in DOMAIN content.elements :
        /\ content.elements[i].attributes[1].name = <<105, 100>>
        /\ content.elements[j].attributes[1].name = <<73, 100>>
  /\ \A n \in DOMAIN result.buffer.files.service :
        LET service == result.buffer.files.service[n]
        IN  /\ service.dtoMapping[1] = <<73, 100>>
            /\ Len(service.entityMapping) = Len(service.dtoMapping) - 1

\* LibroService at run time: create stores the entity under the identity
\* value and update under the id of the path, whatever id the transfer
\* object carries, the other attributes are those of the transfer object,
\* and the transfer object answered carries the id of the stored entity
CreateKeepsId(dto) ==
  /\ DOMAIN repository' = DOMAIN repository \cup {nextId}
  /\ \A k \in DOMAIN repository : repository'[k] = repository[k]
  /\ repository'[nextId] =
       [id |-> nextId, titulo |-> dto.titulo, autor |-> dto.autor,
        isbn |-> dto.isbn]
  /\ response'.body = repository'[nextId]

UpdateKeepsId(id, dto) ==
  id \in DOMAIN repository =>
    /\ repository'[id].id = id
    /\ repository'[id].titulo = dto.titulo
    /\ repository'[id].autor = dto.autor
    /\ repository'[id].isbn = dto.isbn
    /\ response'.body = repository'[id]

C28_StoredIdKept ==
  /\ [](\A k \in DOMAIN repository : repository[k].id = k)
  /\ [][ /\ \A dto \in Dtos : Create(dto) => CreateKeepsId(dto)
         /\ \A id \in 1..MaxId, dto \in Dtos :
               Update(id, dto) => UpdateKeepsId(id, dto) ]_vars

====
